---- MODULE Spec2Model ----
(***************************************************************************)
(* A model of the leaky mount engine (crates/leaky-common), the root       *)
(* pointer coordinator (crates/leaky-server) and the client push           *)
(* (crates/leaky-cli).                                                     *)
(*                                                                         *)
(* Identifiers.  A content identifier is modelled as the pair              *)
(* (codec, encoded value): the cryptographic hash is taken to be injective *)
(* on the values of the model, so two identifiers are equal exactly when   *)
(* codec and encoded value are equal.  A content addressed map (the block  *)
(* cache, the block store) is then the set of identifiers it holds, and    *)
(* the value stored under an identifier is the identifier's `hash` field.  *)
(***************************************************************************)
EXTENDS Integers, Sequences, FiniteSets, TLC

----------------------------------------------------------------------------
(* Bounds *)

\* longest path (in segments) handed to a mount operation
MaxDepth == 2
\* number of mutating operations applied to one mount
MaxOps == 2
MaxFsOps == 3
\* number of push_root requests posted to the coordinator
MaxPosts == 2
\* number of add commands run by the command-line clients
MaxCliOps == 2

\* link names, listed in lexicographic (BTreeMap) order
NameOrder == <<"a", "b">>
Names == {NameOrder[i] : i \in DOMAIN NameOrder}
Payloads == {"x", "y"}
Paths == UNION {[1..k -> Names] : k \in 1..MaxDepth}

----------------------------------------------------------------------------
(* Option and Result values *)

None == [some |-> FALSE]
Some(x) == [some |-> TRUE, v |-> x]

\* a let binding: the value v under the name of F's parameter
Let(v, F(_)) == F(v)

----------------------------------------------------------------------------
(* Ipld values and identifiers *)

IpldLink(c) == [t |-> "link", v |-> c]
IpldMap(m) == [t |-> "map", v |-> m]
IpldInt(n) == [t |-> "int", v |-> n]
IpldStr(s) == [t |-> "str", v |-> s]

EmptyMap == [k \in {} |-> None]

\* Cid::default()
DefaultCid == [codec |-> "identity", hash |-> "none"]
\* the identifier the store returns for a file payload (cid version 1, raw leaves)
DataCid(bytes) == [codec |-> "raw", hash |-> bytes]
\* ipld_to_cid: DagCbor block of the encoded value
ipld_to_cid(ipld) == [codec |-> "dag-cbor", hash |-> ipld]

NODE_OBJECT_KEY == ".metadata"
NODE_SCHEMA_KEY == ".schema"
ReservedNames == {NODE_OBJECT_KEY, NODE_SCHEMA_KEY}

----------------------------------------------------------------------------
(* Object, Schema, Manifest *)

OBJECT_CREATED_AT_LABEL == "created_at"
OBJECT_UPDATED_AT_LABEL == "updated_at"
OBJECT_METADATA_LABEL == "metadata"

\* impl Into<Ipld> for Object
ObjectToIpld(o) ==
    IpldMap([k \in {OBJECT_CREATED_AT_LABEL, OBJECT_UPDATED_AT_LABEL, OBJECT_METADATA_LABEL} |->
        IF k = OBJECT_CREATED_AT_LABEL THEN IpldInt(o.created_at)
        ELSE IF k = OBJECT_UPDATED_AT_LABEL THEN IpldInt(o.updated_at)
        ELSE IpldMap(o.metadata)])

\* impl TryFrom<Ipld> for Object
IpldToObject(ipld) ==
    IF ipld.t # "map" THEN [ok |-> FALSE]
    ELSE LET map == ipld.v
             has(k, t) == k \in DOMAIN map /\ map[k].t = t
         IN  IF ~has(OBJECT_CREATED_AT_LABEL, "int") THEN [ok |-> FALSE]
             ELSE IF ~has(OBJECT_UPDATED_AT_LABEL, "int") THEN [ok |-> FALSE]
             ELSE IF ~has(OBJECT_METADATA_LABEL, "map") THEN [ok |-> FALSE]
             ELSE [ok |-> TRUE,
                   v |-> [created_at |-> map[OBJECT_CREATED_AT_LABEL].v,
                          updated_at |-> map[OBJECT_UPDATED_AT_LABEL].v,
                          metadata |-> map[OBJECT_METADATA_LABEL].v]]

\* Schema encoding: the schema is carried as one structured value
SchemaToIpld(s) == [t |-> "schema", v |-> s]
IpldToSchema(ipld) ==
    IF ipld.t = "schema" THEN [ok |-> TRUE, v |-> ipld.v] ELSE [ok |-> FALSE]

\* Schema::validate: every required property is present with the declared type
SchemaValidate(s, o) ==
    \A p \in DOMAIN s :
        /\ s[p].required => p \in DOMAIN o.metadata
        /\ p \in DOMAIN o.metadata => o.metadata[p].t = s[p].property_type

\* the build tag written into every manifest
BuildVersion == "v0"

\* Manifest::default()
DefaultManifest == [version |-> BuildVersion, previous |-> DefaultCid, data |-> DefaultCid]

ManifestToIpld(m) ==
    IpldMap([k \in {"version", "previous", "data"} |->
        IF k = "version" THEN IpldStr(m.version)
        ELSE IF k = "previous" THEN IpldLink(m.previous)
        ELSE IpldLink(m.data)])

IpldToManifest(ipld) ==
    IF ipld.t # "map" THEN [ok |-> FALSE]
    ELSE LET map == ipld.v
             has(k, t) == k \in DOMAIN map /\ map[k].t = t
         IN  IF has("version", "str") /\ has("previous", "link") /\ has("data", "link")
             THEN [ok |-> TRUE,
                   v |-> [version |-> map["version"].v,
                          previous |-> map["previous"].v,
                          data |-> map["data"].v]]
             ELSE [ok |-> FALSE]

----------------------------------------------------------------------------
(* Node and NodeLink (types/node.rs) *)

DataLink(c, o) == [kind |-> "Data", cid |-> c, object |-> o]
NodeLinkTo(c) == [kind |-> "Node", cid |-> c]

\* Node::default()
DefaultNode == [links |-> EmptyMap, schema |-> None]

\* map insert / remove on a BTreeMap
MapPut(m, k, val) == [x \in DOMAIN m \cup {k} |-> IF x = k THEN val ELSE m[x]]
MapDel(m, k) == [x \in DOMAIN m \ {k} |-> m[x]]

KnownCodecs == {"raw", "dag-cbor"}

\* an encoding that leaves out the attached objects
NodeToIpldWithoutObjects(node) ==
    LET keys == DOMAIN node.links \cup {NODE_OBJECT_KEY}
                      \cup (IF node.schema.some THEN {NODE_SCHEMA_KEY} ELSE {})
    IN  IpldMap([k \in keys |->
            IF k = NODE_OBJECT_KEY THEN IpldMap(EmptyMap)
            ELSE IF k = NODE_SCHEMA_KEY /\ node.schema.some THEN SchemaToIpld(node.schema.v)
            ELSE IpldLink(node.links[k].cid)])

\* impl From<Node> for Ipld
NodeToIpld(node) ==
    LET names == DOMAIN node.links
        tagged == {n \in names : node.links[n].kind = "Data" /\ node.links[n].object.some}
        objects == [n \in tagged |-> ObjectToIpld(node.links[n].object.v)]
        keys == names \cup {NODE_OBJECT_KEY}
                      \cup (IF node.schema.some THEN {NODE_SCHEMA_KEY} ELSE {})
    IN  IpldMap([k \in keys |->
            IF k = NODE_OBJECT_KEY THEN IpldMap(objects)
            ELSE IF k = NODE_SCHEMA_KEY /\ node.schema.some THEN SchemaToIpld(node.schema.v)
            ELSE IpldLink(node.links[k].cid)])

\* impl TryFrom<Ipld> for Node; err is "none", "Node" (NodeError) or "panic"
IpldToNode(ipld) ==
    IF ipld.t # "map" THEN [err |-> "Node"]
    ELSE
    LET map == ipld.v
        hasObj == NODE_OBJECT_KEY \in DOMAIN map
        hasSchema == NODE_SCHEMA_KEY \in DOMAIN map
    IN  IF hasObj /\ map[NODE_OBJECT_KEY].t # "map" THEN [err |-> "Node"]
        ELSE
        LET objmap == IF hasObj THEN map[NODE_OBJECT_KEY].v ELSE EmptyMap
            linkKeys == {k \in DOMAIN map \ ReservedNames : map[k].t = "link"}
        IN  IF \E n \in DOMAIN objmap : ~IpldToObject(objmap[n]).ok THEN [err |-> "Node"]
            ELSE IF hasSchema /\ ~IpldToSchema(map[NODE_SCHEMA_KEY]).ok THEN [err |-> "Node"]
            ELSE IF \E k \in linkKeys : k \notin DOMAIN objmap /\ map[k].v.codec \notin KnownCodecs
                 THEN [err |-> "panic"]
            ELSE [err |-> "none",
                  v |-> [links |-> [k \in linkKeys |->
                            IF k \in DOMAIN objmap
                            THEN DataLink(map[k].v, Some(IpldToObject(objmap[k]).v))
                            ELSE IF map[k].v.codec = "raw"
                                 THEN DataLink(map[k].v, None)
                                 ELSE NodeLinkTo(map[k].v)],
                         schema |-> IF hasSchema
                                    THEN Some(IpldToSchema(map[NODE_SCHEMA_KEY]).v)
                                    ELSE None]]

\* a put_link that accepts every name
put_link_any_name(node, name, cid) ==
    IF cid.codec \notin KnownCodecs THEN [err |-> "panic", node |-> node]
    ELSE [err |-> "none",
          node |-> [node EXCEPT !.links =
                       MapPut(@, name, IF cid.codec = "raw" THEN DataLink(cid, None)
                                       ELSE NodeLinkTo(cid))]]

\* a put_link that keeps the object of the data link it overwrites
put_link_keeps_object(node, name, cid) ==
    IF name \in ReservedNames THEN [err |-> "ReservedName", node |-> node]
    ELSE IF cid.codec \notin KnownCodecs THEN [err |-> "panic", node |-> node]
    ELSE [err |-> "none",
          node |-> [node EXCEPT !.links =
                       MapPut(@, name,
                              IF cid.codec # "raw" THEN NodeLinkTo(cid)
                              ELSE IF name \in DOMAIN node.links /\ node.links[name].kind = "Data"
                              THEN DataLink(cid, node.links[name].object)
                              ELSE DataLink(cid, None))]]

\* Node::put_link
put_link(node, name, cid) ==
    IF name \in ReservedNames THEN [err |-> "ReservedName", node |-> node]
    ELSE IF cid.codec \notin KnownCodecs THEN [err |-> "panic", node |-> node]
    ELSE [err |-> "none",
          node |-> [node EXCEPT !.links =
                       MapPut(@, name, IF cid.codec = "raw" THEN DataLink(cid, None)
                                       ELSE NodeLinkTo(cid))]]

\* a put_object that attaches the object without validating it
put_object_unvalidated(node, name, object, maybe_schema) ==
    IF name \in ReservedNames THEN [err |-> "ReservedName", node |-> node]
    ELSE IF name \in DOMAIN node.links /\ node.links[name].kind = "Data"
    THEN LET prior == node.links[name].object
             obj == IF prior.some THEN [object EXCEPT !.created_at = prior.v.created_at]
                    ELSE object
         IN  [err |-> "none",
              node |-> [node EXCEPT !.links =
                           MapPut(@, name, DataLink(node.links[name].cid, Some(obj)))]]
    ELSE [err |-> "LinkNotFound", node |-> node]

\* a put_object that moves updated_at past the prior object's
put_object_touching(node, name, object, maybe_schema) ==
    IF name \in ReservedNames THEN [err |-> "ReservedName", node |-> node]
    ELSE IF name \in DOMAIN node.links /\ node.links[name].kind = "Data"
    THEN LET prior == node.links[name].object
             obj == IF prior.some
                    THEN [object EXCEPT !.created_at = prior.v.created_at,
                                        !.updated_at = prior.v.updated_at + 1]
                    ELSE object
             valid == IF maybe_schema.some THEN SchemaValidate(maybe_schema.v, obj)
                      ELSE IF node.schema.some THEN SchemaValidate(node.schema.v, obj)
                      ELSE TRUE
         IN  IF ~valid THEN [err |-> "Schema", node |-> node]
             ELSE [err |-> "none",
                   node |-> [node EXCEPT !.links =
                                MapPut(@, name, DataLink(node.links[name].cid, Some(obj)))]]
    ELSE [err |-> "LinkNotFound", node |-> node]

\* Node::put_object
put_object(node, name, object, maybe_schema) ==
    IF name \in ReservedNames THEN [err |-> "ReservedName", node |-> node]
    ELSE IF name \in DOMAIN node.links /\ node.links[name].kind = "Data"
    THEN LET prior == node.links[name].object
             obj == IF prior.some THEN [object EXCEPT !.created_at = prior.v.created_at]
                    ELSE object
             valid == IF maybe_schema.some THEN SchemaValidate(maybe_schema.v, obj)
                      ELSE IF node.schema.some THEN SchemaValidate(node.schema.v, obj)
                      ELSE TRUE
         IN  IF ~valid THEN [err |-> "Schema", node |-> node]
             ELSE [err |-> "none",
                   node |-> [node EXCEPT !.links =
                                MapPut(@, name, DataLink(node.links[name].cid, Some(obj)))]]
    ELSE [err |-> "LinkNotFound", node |-> node]

\* a del that removes every link of the node
del_every_link(node, name) == [node EXCEPT !.links = EmptyMap]

\* Node::del
del(node, name) == [node EXCEPT !.links = MapDel(@, name)]

\* Node::size
size(node) == Cardinality(DOMAIN node.links)

\* Node::set_schema
node_set_schema(node, schema) == [node EXCEPT !.schema = Some(schema)]

----------------------------------------------------------------------------
(* Block cache and block store (mount.rs, ipfs_rpc.rs) *)

\* Mount::get_cache::<Node>
get_cache(cid, cache) ==
    IF cid \notin cache THEN [err |-> "BlockCacheMiss"]
    ELSE Let(IpldToNode(cid.hash), LAMBDA d :
             IF d.err = "none" THEN [err |-> "none", v |-> d.v]
             ELSE IF d.err = "panic" THEN [err |-> "panic"]
             ELSE [err |-> "Ipld"])

\* Mount::put_cache::<Node>
put_cache(node, cache) ==
    Let(ipld_to_cid(NodeToIpld(node)), LAMBDA cid :
        [cid |-> cid, cache |-> cache \cup {cid}])

\* Mount::get::<Node> against the block store
get_node(cid, blocks) ==
    IF cid \notin blocks THEN [err |-> "IpfsRpc"]
    ELSE IF cid.codec # "dag-cbor" THEN [err |-> "Ipld"]
    ELSE Let(IpldToNode(cid.hash), LAMBDA d :
             IF d.err = "none" THEN [err |-> "none", v |-> d.v]
             ELSE IF d.err = "panic" THEN [err |-> "panic"]
             ELSE [err |-> "Ipld"])

\* Mount::get::<Manifest> against the block store
get_manifest(cid, blocks) ==
    IF cid \notin blocks THEN [err |-> "IpfsRpc"]
    ELSE IF cid.codec # "dag-cbor" THEN [err |-> "Ipld"]
    ELSE Let(IpldToManifest(cid.hash), LAMBDA d :
             IF d.ok THEN [err |-> "none", v |-> d.v] ELSE [err |-> "Ipld"])

\* Mount::put::<Manifest>: the identifier the store returns for the manifest
ManifestCid(m) == ipld_to_cid(ManifestToIpld(m))

----------------------------------------------------------------------------
(* The recursive rewrite (Mount::upsert_node).                             *)
(* The result is [err, out, cache]: out is None when nothing changed,      *)
(* Some(DefaultCid) when the node was removed and Some(cid) when it was    *)
(* rewritten; cache is the block cache as the call left it, also on error. *)

UpRet(e, o, c) == [err |-> e, out |-> o, cache |-> c]

\* the two MountError::Default errors of upsert_node, told apart by message
SchemaOnData == "Default(cannot set a schema on a data node)"
DataOnPath == "Default(data node encountered at path)"
\* NodeError::Schema, raised by Schema::validate inside put_object
SchemaValidation == "Schema"

\* the tail of the terminal case: attach the object, re-encode the node
UpsertFinish(node, next_link, maybe_object, schema, cache) ==
    Let(IF maybe_object.some
        THEN put_object(node, next_link, maybe_object.v,
                        IF schema.some THEN Some(schema.v.s) ELSE None)
        ELSE [err |-> "none", node |-> node],
        LAMBDA po :
            IF po.err # "none" THEN UpRet(po.err, None, cache)
            ELSE Let(put_cache(po.node, cache), LAMBDA pc :
                     UpRet("none", Some(pc.cid), pc.cache)))

\* a terminal case that accepts a schema-only call on a data link
UpsertTerminalAllowsData(node, next_link, maybe_link, maybe_object, schema, is_rm, cache) ==
    IF is_rm THEN
        IF next_link \notin DOMAIN node.links THEN UpRet("none", None, cache)
        ELSE LET n1 == del(node, next_link)
             IN  IF size(n1) = 0 THEN UpRet("none", Some(DefaultCid), cache)
                 ELSE UpsertFinish(n1, next_link, maybe_object, schema, cache)
    ELSE IF maybe_link.some THEN
        Let(put_link(node, next_link, maybe_link.v), LAMBDA pl :
            IF pl.err # "none" THEN UpRet(pl.err, None, cache)
            ELSE UpsertFinish(pl.node, next_link, maybe_object, schema, cache))
    ELSE IF next_link \in DOMAIN node.links /\ node.links[next_link].kind = "Node" THEN
        IF schema.some /\ schema.v.persist THEN
            Let(get_cache(node.links[next_link].cid, cache), LAMBDA gc :
                IF gc.err # "none" THEN UpRet(gc.err, None, cache)
                ELSE Let(put_cache(node_set_schema(gc.v, schema.v.s), cache), LAMBDA pc :
                     Let(put_link(node, next_link, pc.cid), LAMBDA pl :
                         IF pl.err # "none" THEN UpRet(pl.err, None, pc.cache)
                         ELSE UpsertFinish(pl.node, next_link, maybe_object, schema,
                                           pc.cache))))
        ELSE UpsertFinish(node, next_link, maybe_object, schema, cache)
    ELSE IF next_link \in DOMAIN node.links THEN
        \* a data link
        UpsertFinish(node, next_link, maybe_object, schema, cache)
    ELSE
        IF schema.some /\ schema.v.persist THEN
            Let(put_cache(node_set_schema(DefaultNode, schema.v.s), cache), LAMBDA pc :
            Let(put_link(node, next_link, pc.cid), LAMBDA pl :
                IF pl.err # "none" THEN UpRet(pl.err, None, pc.cache)
                ELSE UpsertFinish(pl.node, next_link, maybe_object, schema, pc.cache)))
        ELSE UpRet("none", None, cache)

\* remaining path of length one
UpsertTerminal(node, next_link, maybe_link, maybe_object, schema, is_rm, cache) ==
    IF is_rm THEN
        IF next_link \notin DOMAIN node.links THEN UpRet("none", None, cache)
        ELSE LET n1 == del(node, next_link)
             IN  IF size(n1) = 0 THEN UpRet("none", Some(DefaultCid), cache)
                 ELSE UpsertFinish(n1, next_link, maybe_object, schema, cache)
    ELSE IF maybe_link.some THEN
        Let(put_link(node, next_link, maybe_link.v), LAMBDA pl :
            IF pl.err # "none" THEN UpRet(pl.err, None, cache)
            ELSE UpsertFinish(pl.node, next_link, maybe_object, schema, cache))
    ELSE IF next_link \in DOMAIN node.links /\ node.links[next_link].kind = "Node" THEN
        IF schema.some /\ schema.v.persist THEN
            Let(get_cache(node.links[next_link].cid, cache), LAMBDA gc :
                IF gc.err # "none" THEN UpRet(gc.err, None, cache)
                ELSE Let(put_cache(node_set_schema(gc.v, schema.v.s), cache), LAMBDA pc :
                     Let(put_link(node, next_link, pc.cid), LAMBDA pl :
                         IF pl.err # "none" THEN UpRet(pl.err, None, pc.cache)
                         ELSE UpsertFinish(pl.node, next_link, maybe_object, schema,
                                           pc.cache))))
        ELSE UpsertFinish(node, next_link, maybe_object, schema, cache)
    ELSE IF next_link \in DOMAIN node.links THEN
        \* a data link
        IF ~maybe_object.some THEN UpRet(SchemaOnData, None, cache)
        ELSE UpsertFinish(node, next_link, maybe_object, schema, cache)
    ELSE
        IF schema.some /\ schema.v.persist THEN
            Let(put_cache(node_set_schema(DefaultNode, schema.v.s), cache), LAMBDA pc :
            Let(put_link(node, next_link, pc.cid), LAMBDA pl :
                IF pl.err # "none" THEN UpRet(pl.err, None, pc.cache)
                ELSE UpsertFinish(pl.node, next_link, maybe_object, schema, pc.cache)))
        ELSE UpRet("none", None, cache)

\* a bubble that drops the link to a child that reported no change
UpsertBubbleDropsUnchanged(node, next_link, r) ==
    IF r.err # "none" THEN r
    ELSE IF ~r.out.some \/ r.out.v = DefaultCid THEN
        LET n1 == del(node, next_link)
        IN  IF size(n1) = 0 THEN UpRet("none", Some(DefaultCid), r.cache)
            ELSE Let(put_cache(n1, r.cache), LAMBDA pc :
                     UpRet("none", Some(pc.cid), pc.cache))
    ELSE
        Let(put_link(node, next_link, r.out.v), LAMBDA pl :
            IF pl.err # "none" THEN UpRet(pl.err, None, r.cache)
            ELSE Let(put_cache(pl.node, r.cache), LAMBDA pc :
                     UpRet("none", Some(pc.cid), pc.cache)))

\* a bubble that links the rewritten child and returns the identifier of the
\* enclosing node without writing that node to the block cache
UpsertBubbleUncached(node, next_link, r) ==
    IF r.err # "none" THEN r
    ELSE IF ~r.out.some THEN UpRet("none", None, r.cache)
    ELSE IF r.out.v = DefaultCid THEN
        LET n1 == del(node, next_link)
        IN  IF size(n1) = 0 THEN UpRet("none", Some(DefaultCid), r.cache)
            ELSE UpRet("none", Some(put_cache(n1, r.cache).cid), r.cache)
    ELSE
        Let(put_link(node, next_link, r.out.v), LAMBDA pl :
            IF pl.err # "none" THEN UpRet(pl.err, None, r.cache)
            ELSE UpRet("none", Some(put_cache(pl.node, r.cache).cid), r.cache))

\* interpret the result of the recursion on the child
UpsertBubble(node, next_link, r) ==
    IF r.err # "none" THEN r
    ELSE IF ~r.out.some THEN UpRet("none", None, r.cache)
    ELSE IF r.out.v = DefaultCid THEN
        LET n1 == del(node, next_link)
        IN  IF size(n1) = 0 THEN UpRet("none", Some(DefaultCid), r.cache)
            ELSE Let(put_cache(n1, r.cache), LAMBDA pc :
                     UpRet("none", Some(pc.cid), pc.cache))
    ELSE
        Let(put_link(node, next_link, r.out.v), LAMBDA pl :
            IF pl.err # "none" THEN UpRet(pl.err, None, r.cache)
            ELSE Let(put_cache(pl.node, r.cache), LAMBDA pc :
                     UpRet("none", Some(pc.cid), pc.cache)))

RECURSIVE upsert_node(_, _, _, _, _, _)
\* an upsert_node that reports no change when an interior segment is a data link
upsert_node_past_data(node, remaining_path, maybe_link, maybe_object, maybe_schema, cache) ==
    LET is_rm == ~maybe_link.some /\ ~maybe_object.some /\ ~maybe_schema.some
        next_link == Head(remaining_path)
        schema == IF node.schema.some
                  THEN Some([s |-> node.schema.v, persist |-> FALSE])
                  ELSE maybe_schema
    IN  IF Len(remaining_path) = 1
        THEN UpsertTerminal(node, next_link, maybe_link, maybe_object, schema, is_rm, cache)
        ELSE
        IF next_link \in DOMAIN node.links /\ node.links[next_link].kind = "Data"
        THEN UpRet("none", None, cache)
        ELSE IF next_link \in DOMAIN node.links
        THEN Let(get_cache(node.links[next_link].cid, cache), LAMBDA gc :
                 IF gc.err # "none" THEN UpRet(gc.err, None, cache)
                 ELSE UpsertBubble(node, next_link,
                        upsert_node(gc.v, Tail(remaining_path), maybe_link,
                                    maybe_object, maybe_schema, cache)))
        ELSE IF maybe_link.some
        THEN UpsertBubble(node, next_link,
                upsert_node(DefaultNode, Tail(remaining_path), maybe_link,
                            maybe_object, maybe_schema,
                            put_cache(DefaultNode, cache).cache))
        ELSE UpRet("none", None, cache)

upsert_node(node, remaining_path, maybe_link, maybe_object, maybe_schema, cache) ==
    LET is_rm == ~maybe_link.some /\ ~maybe_object.some /\ ~maybe_schema.some
        next_link == Head(remaining_path)
        schema == IF node.schema.some
                  THEN Some([s |-> node.schema.v, persist |-> FALSE])
                  ELSE maybe_schema
    IN  IF Len(remaining_path) = 1
        THEN UpsertTerminal(node, next_link, maybe_link, maybe_object, schema, is_rm, cache)
        ELSE
        IF next_link \in DOMAIN node.links /\ node.links[next_link].kind = "Data"
        THEN UpRet(DataOnPath, None, cache)
        ELSE IF next_link \in DOMAIN node.links
        THEN Let(get_cache(node.links[next_link].cid, cache), LAMBDA gc :
                 IF gc.err # "none" THEN UpRet(gc.err, None, cache)
                 ELSE UpsertBubble(node, next_link,
                        upsert_node(gc.v, Tail(remaining_path), maybe_link,
                                    maybe_object, maybe_schema, cache)))
        ELSE IF maybe_link.some
        THEN UpsertBubble(node, next_link,
                upsert_node(DefaultNode, Tail(remaining_path), maybe_link,
                            maybe_object, maybe_schema,
                            put_cache(DefaultNode, cache).cache))
        ELSE UpRet("none", None, cache)

----------------------------------------------------------------------------
(* Mount operations.  A mount is [cid, manifest, block_cache]; an          *)
(* operation returns [err, mount, blocks] with the mount and the block     *)
(* store as the call left them.                                            *)

MountRet(e, m, b) == [err |-> e, mount |-> m, blocks |-> b]

\* Mount::init
MountInit(blocks) ==
    Let(put_cache(DefaultNode, {}), LAMBDA pc :
    Let([DefaultManifest EXCEPT !.data = pc.cid], LAMBDA manifest :
    Let(ManifestCid(manifest), LAMBDA cid :
        MountRet("none", [cid |-> cid, manifest |-> manifest, block_cache |-> pc.cache],
                 blocks \cup {cid}))))

RECURSIVE pull_nodes(_, _, _)
\* Mount::pull_nodes with an ipfs_rpc: todo is the stack of identifiers still
\* to fetch; returns [err, cache]
pull_nodes(todo, cache, blocks) ==
    IF todo = <<>> THEN [err |-> "none", cache |-> cache]
    ELSE Let(get_node(Head(todo), blocks), LAMBDA g :
             IF g.err # "none" THEN [err |-> g.err, cache |-> cache]
             ELSE LET links == g.v.links
                      kids == SelectSeq(NameOrder,
                                LAMBDA n : n \in DOMAIN links /\ links[n].kind = "Node")
                      kidCids == [i \in 1..Len(kids) |-> links[kids[i]].cid]
                  IN  pull_nodes(kidCids \o Tail(todo), cache \cup {Head(todo)}, blocks))

\* Mount::pull
MountPull(cid, blocks) ==
    Let(get_manifest(cid, blocks), LAMBDA gm :
        IF gm.err # "none" THEN [err |-> gm.err]
        ELSE Let(pull_nodes(<<gm.v.data>>, {}, blocks), LAMBDA pn :
                 IF pn.err # "none" THEN [err |-> pn.err]
                 ELSE [err |-> "none",
                       mount |-> [cid |-> cid, manifest |-> gm.v,
                                  block_cache |-> pn.cache]]))

\* an update that does not compare the manifest's previous with the mount
MountUpdateUnchecked(mount, cid, blocks) ==
    Let(get_manifest(cid, blocks), LAMBDA gm :
        IF gm.err # "none" THEN MountRet(gm.err, mount, blocks)
        ELSE Let(pull_nodes(<<gm.v.data>>, {}, blocks), LAMBDA pn :
                 IF pn.err # "none" THEN MountRet(pn.err, mount, blocks)
                 ELSE MountRet("none",
                        [cid |-> cid, manifest |-> gm.v, block_cache |-> pn.cache],
                        blocks)))

\* an update that pulls the nodes into the cache the mount already has
MountUpdateKeepsCache(mount, cid, blocks) ==
    Let(get_manifest(cid, blocks), LAMBDA gm :
        IF gm.err # "none" THEN MountRet(gm.err, mount, blocks)
        ELSE IF gm.v.previous # mount.cid THEN MountRet("PreviousCidMismatch", mount, blocks)
        ELSE Let(pull_nodes(<<gm.v.data>>, mount.block_cache, blocks), LAMBDA pn :
                 IF pn.err # "none" THEN MountRet(pn.err, mount, blocks)
                 ELSE MountRet("none",
                        [cid |-> cid, manifest |-> gm.v, block_cache |-> pn.cache],
                        blocks)))

\* Mount::update
MountUpdate(mount, cid, blocks) ==
    Let(get_manifest(cid, blocks), LAMBDA gm :
        IF gm.err # "none" THEN MountRet(gm.err, mount, blocks)
        ELSE IF gm.v.previous # mount.cid THEN MountRet("PreviousCidMismatch", mount, blocks)
        ELSE Let(pull_nodes(<<gm.v.data>>, {}, blocks), LAMBDA pn :
                 IF pn.err # "none" THEN MountRet(pn.err, mount, blocks)
                 ELSE MountRet("none",
                        [cid |-> cid, manifest |-> gm.v, block_cache |-> pn.cache],
                        blocks)))

\* a set_previous that leaves the manifest as it is
MountSetPreviousKeeps(mount, previous) == mount

\* Mount::set_previous
MountSetPrevious(mount, previous) == [mount EXCEPT !.manifest.previous = previous]

\* a push that writes the manifest and leaves the cached blocks behind
MountPushManifestOnly(mount, blocks) ==
    Let(ManifestCid(mount.manifest), LAMBDA cid :
        MountRet("none", [mount EXCEPT !.cid = cid], blocks \cup {cid}))

\* a push that first links the manifest to the root it replaces
MountPushLinksPrevious(mount, blocks) ==
    Let(ManifestCid(MountSetPrevious(mount, mount.cid).manifest), LAMBDA cid :
        MountRet("none", [MountSetPrevious(mount, mount.cid) EXCEPT !.cid = cid],
                 blocks \cup mount.block_cache \cup {cid}))

\* Mount::push
MountPush(mount, blocks) ==
    Let(ManifestCid(mount.manifest), LAMBDA cid :
        MountRet("none", [mount EXCEPT !.cid = cid],
                 blocks \cup mount.block_cache \cup {cid}))

\* a failing push that drains the blocks it stored from the block cache
MountPushFailingDrains(mount, blocks, stored) ==
    MountRet("IpfsRpc", [mount EXCEPT !.block_cache = mount.block_cache \ stored],
             blocks \cup stored)

\* Mount::push when a store call fails or the call is cancelled: the blocks
\* of `stored` were written before that, in the iteration order of the cache
MountPushFailing(mount, blocks, stored) ==
    MountRet("IpfsRpc", mount, blocks \cup stored)

\* an install that records the root it replaces as the previous root
MountInstallLinksPrevious(mount, r, blocks) ==
    IF r.err # "none" THEN MountRet(r.err, [mount EXCEPT !.block_cache = r.cache], blocks)
    ELSE IF ~r.out.some THEN MountRet("none", [mount EXCEPT !.block_cache = r.cache], blocks)
    ELSE Let([mount.manifest EXCEPT !.data = r.out.v, !.previous = mount.cid],
             LAMBDA manifest :
         Let(ManifestCid(manifest), LAMBDA cid :
             MountRet("none",
                      [cid |-> cid, manifest |-> manifest, block_cache |-> r.cache],
                      blocks \cup {cid})))

\* the common tail of add, tag and set_schema: install the new data node
MountInstall(mount, r, blocks) ==
    IF r.err # "none" THEN MountRet(r.err, [mount EXCEPT !.block_cache = r.cache], blocks)
    ELSE IF ~r.out.some THEN MountRet("none", [mount EXCEPT !.block_cache = r.cache], blocks)
    ELSE Let([mount.manifest EXCEPT !.data = r.out.v], LAMBDA manifest :
         Let(ManifestCid(manifest), LAMBDA cid :
             MountRet("none",
                      [cid |-> cid, manifest |-> manifest, block_cache |-> r.cache],
                      blocks \cup {cid})))

\* an add that always only hashes the payload
MountAddNeverStores(mount, path, data, hash_only, blocks) ==
    Let(get_cache(mount.manifest.data, mount.block_cache), LAMBDA root :
        IF root.err # "none" THEN MountRet(root.err, mount, blocks)
        ELSE MountInstall(mount,
                upsert_node(root.v, path, Some(DataCid(data)), None, None,
                            mount.block_cache),
                blocks))

\* the tail of add, tag, set_schema and rm when the put of the manifest
\* fails: set_data has been called, the root identifier is not assigned
MountInstallFailing(mount, r, blocks) ==
    IF r.err # "none" \/ ~r.out.some THEN MountInstall(mount, r, blocks)
    ELSE MountRet("IpfsRpc",
                  [mount EXCEPT !.manifest.data = r.out.v, !.block_cache = r.cache],
                  blocks)

\* Mount::add when the put of the manifest fails
MountAddFailing(mount, path, data, hash_only, blocks) ==
    Let(get_cache(mount.manifest.data, mount.block_cache), LAMBDA root :
        IF root.err # "none"
        THEN MountRet(root.err, mount,
                      IF hash_only THEN blocks ELSE blocks \cup {DataCid(data)})
        ELSE MountInstallFailing(mount,
                upsert_node(root.v, path, Some(DataCid(data)), None, None,
                            mount.block_cache),
                IF hash_only THEN blocks ELSE blocks \cup {DataCid(data)}))

\* an add that also keeps the payload block in the block cache
MountAddCachesPayload(mount, path, data, hash_only, blocks) ==
    Let(get_cache(mount.manifest.data, mount.block_cache), LAMBDA root :
        IF root.err # "none" THEN MountRet(root.err, mount, blocks \cup {DataCid(data)})
        ELSE MountInstall(mount,
                upsert_node(root.v, path, Some(DataCid(data)), None, None,
                            mount.block_cache \cup {DataCid(data)}),
                blocks \cup {DataCid(data)}))

\* Mount::add
MountAdd(mount, path, data, hash_only, blocks) ==
    LET link == DataCid(data)
        blocks1 == IF hash_only THEN blocks ELSE blocks \cup {link}
    IN  Let(get_cache(mount.manifest.data, mount.block_cache), LAMBDA root :
            IF root.err # "none" THEN MountRet(root.err, mount, blocks1)
            ELSE MountInstall(mount,
                    upsert_node(root.v, path, Some(link), None, None, mount.block_cache),
                    blocks1))

\* an rm that installs the default identifier when the root node empties
MountRmKeepsDefault(mount, path, blocks) ==
    Let(get_cache(mount.manifest.data, mount.block_cache), LAMBDA root :
        IF root.err # "none" THEN MountRet(root.err, mount, blocks)
        ELSE MountInstall(mount,
                upsert_node(root.v, path, None, None, None, mount.block_cache), blocks))

\* Mount::rm
MountRm(mount, path, blocks) ==
    Let(get_cache(mount.manifest.data, mount.block_cache), LAMBDA root :
        IF root.err # "none" THEN MountRet(root.err, mount, blocks)
        ELSE Let(upsert_node(root.v, path, None, None, None, mount.block_cache), LAMBDA r :
                 IF r.err = "none" /\ r.out.some /\ r.out.v = DefaultCid
                 THEN Let(put_cache(DefaultNode, r.cache), LAMBDA pc :
                          MountInstall(mount, UpRet("none", Some(pc.cid), pc.cache), blocks))
                 ELSE MountInstall(mount, r, blocks)))

\* Mount::tag
MountTag(mount, path, object, blocks) ==
    Let(get_cache(mount.manifest.data, mount.block_cache), LAMBDA root :
        IF root.err # "none" THEN MountRet(root.err, mount, blocks)
        ELSE MountInstall(mount,
                upsert_node(root.v, path, None, Some(object), None, mount.block_cache),
                blocks))

\* Mount::set_schema
MountSetSchema(mount, path, schema, blocks) ==
    Let(get_cache(mount.manifest.data, mount.block_cache), LAMBDA root :
        IF root.err # "none" THEN MountRet(root.err, mount, blocks)
        ELSE MountInstall(mount,
                upsert_node(root.v, path, None, None,
                            Some([s |-> schema, persist |-> TRUE]), mount.block_cache),
                blocks))

----------------------------------------------------------------------------
(* Queries: get_node_link_at_path, ls, ls_deep, cat *)

Front(seq) == SubSeq(seq, 1, Len(seq) - 1)
Last(seq) == seq[Len(seq)]

RECURSIVE walk_nodes(_, _, _)
\* the loop of get_node_link_at_path over the interior segments
walk_nodes(node, link_path, cache) ==
    IF link_path = <<>> THEN [err |-> "none", v |-> node]
    ELSE IF Head(link_path) \notin DOMAIN node.links THEN [err |-> "PathNotFound"]
    ELSE Let(get_cache(node.links[Head(link_path)].cid, cache), LAMBDA gc :
             IF gc.err = "Ipld" THEN [err |-> "PathNotNode"]
             ELSE IF gc.err # "none" THEN [err |-> gc.err]
             ELSE walk_nodes(gc.v, Tail(link_path), cache))

\* Mount::get_node_link_at_path (path already cleaned)
get_node_link_at_path(mount, path) ==
    IF Len(path) = 0 THEN [err |-> "none", v |-> NodeLinkTo(mount.manifest.data)]
    ELSE Let(get_cache(mount.manifest.data, mount.block_cache), LAMBDA root :
             IF root.err # "none" THEN [err |-> root.err]
             ELSE Let(walk_nodes(root.v, Front(path), mount.block_cache), LAMBDA w :
                      IF w.err # "none" THEN [err |-> w.err]
                      ELSE IF Last(path) \notin DOMAIN w.v.links
                      THEN [err |-> "PathNotFound"]
                      ELSE [err |-> "none", v |-> w.v.links[Last(path)]]))

\* the names of a map iterated in descending order
DescendingNames(links) ==
    LET up == SelectSeq(NameOrder, LAMBDA n : n \in DOMAIN links)
    IN  [i \in 1..Len(up) |-> up[Len(up) + 1 - i]]

\* the names of a BTreeMap in iteration order
SortedNames(links) == SelectSeq(NameOrder, LAMBDA n : n \in DOMAIN links)

RECURSIVE ls_deep(_, _, _)
RECURSIVE ls_deep_links(_, _, _, _)
\* the loop of ls_deep over the links of one node
ls_deep_links(path, node, names, cache) ==
    IF names = <<>> THEN [err |-> "none", items |-> <<>>]
    ELSE LET name == Head(names)
             link == node.links[name]
             current_path == Append(path, name)
         IN  Let(IF link.kind = "Data"
                 THEN [err |-> "none", items |-> <<[path |-> current_path, link |-> link]>>]
                 ELSE Let(get_cache(link.cid, cache), LAMBDA gc :
                          IF gc.err # "none" THEN [err |-> gc.err]
                          ELSE ls_deep(current_path, gc.v, cache)),
                 LAMBDA here :
                    IF here.err # "none" THEN [err |-> here.err]
                    ELSE Let(ls_deep_links(path, node, Tail(names), cache), LAMBDA rest :
                             IF rest.err # "none" THEN [err |-> rest.err]
                             ELSE [err |-> "none", items |-> here.items \o rest.items]))

\* Mount::ls_deep: the data links below a node, keyed by path, in key order
ls_deep(path, node, cache) == ls_deep_links(path, node, SortedNames(node.links), cache)

\* Mount::ls
MountLs(mount, path, deep) ==
    Let(get_node_link_at_path(mount, path), LAMBDA nl :
        IF nl.err # "none" THEN [err |-> nl.err]
        ELSE IF nl.v.kind = "Data" THEN [err |-> "PathNotDir"]
        ELSE Let(get_cache(nl.v.cid, mount.block_cache), LAMBDA gc :
                 IF gc.err # "none" THEN [err |-> gc.err]
                 ELSE IF deep
                 THEN Let(ls_deep(path, gc.v, mount.block_cache), LAMBDA d :
                          IF d.err # "none" THEN [err |-> d.err]
                          ELSE [err |-> "none", items |-> d.items, schema |-> None])
                 ELSE LET names == SortedNames(gc.v.links)
                      IN  [err |-> "none",
                           items |-> [i \in 1..Len(names) |->
                                        [path |-> <<names[i]>>,
                                         link |-> gc.v.links[names[i]]]],
                           schema |-> gc.v.schema]))

\* IpfsRpc::cat_data
cat_data(cid, blocks) ==
    IF cid \in blocks THEN [err |-> "none", v |-> cid.hash] ELSE [err |-> "IpfsRpc"]

\* Mount::cat
MountCat(mount, path, blocks) ==
    Let(get_node_link_at_path(mount, path), LAMBDA nl :
        IF nl.err # "none" THEN [err |-> nl.err]
        ELSE IF nl.v.kind = "Data" THEN cat_data(nl.v.cid, blocks)
        ELSE [err |-> "PathNotFile"])

----------------------------------------------------------------------------
(* State *)

VARIABLES
    blocks,     \* the block store: identifiers of the blocks it holds
    mounts,     \* the client mounts, by name
    files,      \* reference file system of mount "A": path -> payload
    last,       \* the last mount operation and its outcome
    nops,       \* number of client operations applied so far
    chain,      \* the coordinator's table of (cid, previous_cid) rows
    server,     \* the server's in-process mount
    reqs,       \* the push_root request of each client and its response
    disk,       \* the on-disk state of each command-line client
    pushed,     \* roots of the push_root requests answered 200, in order
    scen        \* position and inputs of the two-writer scenario

vars == <<blocks, mounts, files, last, nops, chain, server, reqs, disk, pushed, scen>>

MountIds == {"A", "B"}

\* a mount that has not been constructed yet
NoMount == [cid |-> DefaultCid, manifest |-> DefaultManifest, block_cache |-> {}]
IsLive(m) == mounts[m] # NoMount

\* inputs of add: a stored payload, and stored and hash-only "y"
AddInputs ==
    {[data |-> "x", hash_only |-> FALSE],
     [data |-> "y", hash_only |-> FALSE],
     [data |-> "y", hash_only |-> TRUE]}

\* inputs of tag and set_schema
TitleSchema == [p \in {"title"} |-> [property_type |-> "str", required |-> TRUE]]
SchemaInputs == {TitleSchema}
ObjectInputs ==
    {[created_at |-> 1, updated_at |-> 1, metadata |-> [p \in {"title"} |-> IpldStr("hi")]],
     [created_at |-> 2, updated_at |-> 2, metadata |-> EmptyMap]}

NoArg == "-"
Op(op, m, path, arg, flag, err, pre) ==
    [op |-> op, m |-> m, path |-> path, arg |-> arg, flag |-> flag, err |-> err, pre |-> pre]

IsPrefix(p, q) == Len(p) <= Len(q) /\ SubSeq(q, 1, Len(p)) = p

\* the reference file system after add(path, data) and after rm(path)
FilesAdd(f, path, data) ==
    [q \in {q \in DOMAIN f : ~IsPrefix(path, q)} \cup {path} |->
        IF q = path THEN data ELSE f[q]]
FilesRm(f, path) == [q \in {q \in DOMAIN f : ~IsPrefix(path, q)} |-> f[q]]

NoReq == [pc |-> "idle", cid |-> DefaultCid, previous_cid |-> DefaultCid,
          status |-> 0, body |-> NoArg, err |-> "none", installed |-> FALSE,
          id |-> 0, head |-> DefaultCid, rival |-> 0]
NoDisk == [cid |-> DefaultCid, previous_cid |-> DefaultCid]
NoScen == [pc |-> "off"]

coordVars == <<chain, server, reqs, disk, pushed, scen>>

InitA ==
    \E r \in {MountInit({})} :
        /\ blocks = r.blocks
        /\ mounts = [m \in MountIds |-> IF m = "A" THEN r.mount ELSE NoMount]
        /\ files = EmptyMap
        /\ last = Op("init", "A", <<>>, NoArg, FALSE, "none", NoMount)
        /\ nops = 0
        /\ chain = <<>>
        /\ server = NoMount
        /\ reqs = [c \in MountIds |-> NoReq]
        /\ disk = [c \in MountIds |-> NoDisk]
        /\ pushed = <<>>
        /\ scen = NoScen

Init == InitA

Add(m, max) ==
    \E path \in Paths, in \in AddInputs :
        /\ IsLive(m) /\ nops < max
        /\ \E r \in {MountAdd(mounts[m], path, in.data, in.hash_only, blocks)} :
               /\ r.err # "panic"
               /\ mounts' = [mounts EXCEPT ![m] = r.mount]
               /\ blocks' = r.blocks
               /\ last' = Op("add", m, path, in.data, in.hash_only, r.err, mounts[m])
               /\ files' = IF m = "A" /\ r.err = "none" THEN FilesAdd(files, path, in.data)
                           ELSE files
        /\ nops' = nops + 1
        /\ UNCHANGED coordVars

Rm(m, max) ==
    \E path \in Paths :
        /\ IsLive(m) /\ nops < max
        /\ \E r \in {MountRm(mounts[m], path, blocks)} :
               /\ r.err # "panic"
               /\ mounts' = [mounts EXCEPT ![m] = r.mount]
               /\ blocks' = r.blocks
               /\ last' = Op("rm", m, path, NoArg, FALSE, r.err, mounts[m])
               /\ files' = IF m = "A" /\ r.err = "none" THEN FilesRm(files, path) ELSE files
        /\ nops' = nops + 1
        /\ UNCHANGED coordVars

Tag(m) ==
    \E path \in Paths, object \in ObjectInputs :
        /\ IsLive(m) /\ nops < MaxOps
        /\ \E r \in {MountTag(mounts[m], path, object, blocks)} :
               /\ r.err # "panic"
               /\ mounts' = [mounts EXCEPT ![m] = r.mount]
               /\ blocks' = r.blocks
               /\ last' = Op("tag", m, path, object, FALSE, r.err, mounts[m])
        /\ nops' = nops + 1
        /\ UNCHANGED <<files, coordVars>>

SetSchema(m) ==
    \E path \in Paths, schema \in SchemaInputs :
        /\ IsLive(m) /\ nops < MaxOps
        /\ \E r \in {MountSetSchema(mounts[m], path, schema, blocks)} :
               /\ r.err # "panic"
               /\ mounts' = [mounts EXCEPT ![m] = r.mount]
               /\ blocks' = r.blocks
               /\ last' = Op("set_schema", m, path, schema, FALSE, r.err, mounts[m])
        /\ nops' = nops + 1
        /\ UNCHANGED <<files, coordVars>>

Push(m) ==
    /\ IsLive(m) /\ last.op # "push"
    /\ \E r \in {MountPush(mounts[m], blocks)} :
           /\ mounts' = [mounts EXCEPT ![m] = r.mount]
           /\ blocks' = r.blocks
           /\ last' = Op("push", m, <<>>, NoArg, FALSE, r.err, mounts[m])
    /\ UNCHANGED <<files, nops, coordVars>>

\* Mount::pull of the root of mount src into the fresh mount m
Pull(m, src) ==
    /\ IsLive(src) /\ m # src /\ last.op = "push" /\ last.m = src
    /\ \E r \in {MountPull(mounts[src].cid, blocks)} :
           /\ mounts' = [mounts EXCEPT ![m] = IF r.err = "none" THEN r.mount ELSE NoMount]
           /\ last' = Op("pull", m, <<>>, mounts[src].cid, FALSE, r.err, mounts[m])
    /\ UNCHANGED <<blocks, files, nops, coordVars>>

Next ==
    \/ Add("A", MaxOps)
    \/ Rm("A", MaxOps)
    \/ Tag("A")
    \/ SetSchema("A")
    \/ Push("A")
    \/ Pull("B", "A")

Spec == Init /\ [][Next]_vars

\* one mount under add and rm only
NextFs == Add("A", MaxFsOps) \/ Rm("A", MaxFsOps)

SpecFs == Init /\ [][NextFs]_vars

----------------------------------------------------------------------------
(* Properties of one mount *)

InitMount == MountInit({}).mount

\* the directories of the reference file system: the proper prefixes of its
\* files, the root included
RefDirs == UNION {{SubSeq(q, 1, k) : k \in 0..(Len(q) - 1)} : q \in DOMAIN files} \cup {<<>>}
\* the names the reference file system has directly under directory p
RefChildren(p) == {n \in Names : \E q \in DOMAIN files : IsPrefix(Append(p, n), q)}
\* what ls(p, deep = false) has to return for directory p
RefLs(p) ==
    LET names == SelectSeq(NameOrder, LAMBDA n : n \in RefChildren(p))
    IN  [i \in 1..Len(names) |->
            [path |-> <<names[i]>>,
             kind |-> IF Append(p, names[i]) \in DOMAIN files THEN "Data" ELSE "Node",
             cid |-> IF Append(p, names[i]) \in DOMAIN files
                     THEN DataCid(files[Append(p, names[i])]) ELSE DefaultCid]]
\* the same view of an ls result: path, kind, and the identifier of a data link
LsView(items) ==
    [i \in 1..Len(items) |->
        [path |-> items[i].path, kind |-> items[i].link.kind,
         cid |-> IF items[i].link.kind = "Data" THEN items[i].link.cid ELSE DefaultCid]]

\* C1: on a mount obtained from init, a successful add(p, b) followed by a
\* successful rm(p) leaves the mount with the root identifier of the initial
\* empty mount
AddRmRestoresRoot ==
    [][(/\ last.op = "add" /\ last.err = "none" /\ last.pre.cid = InitMount.cid
        /\ last'.op = "rm" /\ last'.err = "none" /\ last'.path = last.path)
       => mounts'["A"].cid = InitMount.cid]_vars

AddRmRestoresRootWitness ==
    /\ nops = 2 /\ last.op = "rm" /\ last.err = "none" /\ Len(last.path) = MaxDepth
    /\ last.pre.cid # InitMount.cid
    /\ mounts["A"].cid = InitMount.cid

\* C2: after any sequence of operations and a push, pull of the pushed root
\* into a fresh mount succeeds and gives the same root identifier, the same
\* manifest and the same ls("/", deep = true)
PullEqualsPushed ==
    last.op = "pull" =>
        /\ last.err = "none"
        /\ mounts["B"].cid = mounts["A"].cid
        /\ mounts["B"].manifest = mounts["A"].manifest
        /\ MountLs(mounts["A"], <<>>, TRUE).err = "none"
        /\ MountLs(mounts["B"], <<>>, TRUE) = MountLs(mounts["A"], <<>>, TRUE)

PullEqualsPushedWitness ==
    /\ last.op = "pull" /\ last.err = "none" /\ nops = MaxOps
    /\ mounts["B"].cid = mounts["A"].cid
    /\ \E l \in {MountLs(mounts["B"], <<>>, TRUE)} :
           /\ l.err = "none"
           /\ \E i \in 1..Len(l.items) : Len(l.items[i].path) = 2 /\ l.items[i].link.object.some

\* C9: after add(p, b, hash_only = false) succeeds, cat(p) returns b; cat on
\* a path that is a node (a directory, the root included) fails PathNotFile
CatReturnsAdded ==
    /\ (last.op = "add" /\ last.err = "none" /\ ~last.flag)
        => MountCat(mounts["A"], last.path, blocks) = [err |-> "none", v |-> last.arg]
    /\ \A p \in RefDirs : MountCat(mounts["A"], p, blocks) = [err |-> "PathNotFile"]

CatReturnsAddedWitness ==
    /\ last.op = "add" /\ last.err = "none" /\ ~last.flag /\ Len(last.path) = 2
    /\ MountCat(mounts["A"], last.path, blocks) = [err |-> "none", v |-> last.arg]
    /\ MountCat(mounts["A"], Front(last.path), blocks).err = "PathNotFile"
    /\ Cardinality(DOMAIN files) >= 2

\* C10: after any sequence of add and rm, ls(p, deep = false) of a directory
\* returns exactly its direct children in lexicographic order, a file as a
\* data link and a subdirectory as a node link; ls of a file fails
\* PathNotDir; ls of a name missing from its directory fails PathNotFound
LsListsChildren ==
    /\ \A p \in RefDirs :
          \A l \in {MountLs(mounts["A"], p, FALSE)} :
              /\ l.err = "none"
              /\ LsView(l.items) = RefLs(p)
              /\ \A n \in Names \ RefChildren(p) :
                    MountLs(mounts["A"], Append(p, n), FALSE).err = "PathNotFound"
    /\ \A q \in DOMAIN files : MountLs(mounts["A"], q, FALSE).err = "PathNotDir"

LsListsChildrenWitness ==
    /\ nops = MaxFsOps /\ last.op = "rm" /\ last.err = "none"
    /\ Len(MountLs(mounts["A"], <<>>, FALSE).items) = 2
    /\ \E p \in RefDirs : p # <<>> /\ Len(MountLs(mounts["A"], p, FALSE).items) = 1
    /\ \E q \in DOMAIN files : Len(q) = 1

----------------------------------------------------------------------------
(* The root-pointer coordinator and the push_root handler *)

\* RootCid::pull: the identifier of the newest row, the default when none
ChainHead(rows) == IF rows = <<>> THEN DefaultCid ELSE rows[Len(rows)].cid
ChainCids(rows) == {rows[i].cid : i \in 1..Len(rows)}

\* RootCid::push: compare-and-swap of the head inside the caller's transaction
RootCidPush(cid, previous_cid, rows) ==
    IF previous_cid # ChainHead(rows) THEN [err |-> "Conflict", rows |-> rows]
    ELSE [err |-> "none",
          rows |-> Append(rows, [cid |-> cid, previous_cid |-> previous_cid])]

\* a response mapping that answers every error with 500
into_response_flat(err) == [status |-> 500, body |-> "unknown server error"]

\* impl IntoResponse for PushRootError
into_response(err) ==
    IF err = "Cid" THEN [status |-> 400, body |-> "invalid cid"]
    ELSE IF err = "InvalidLink" THEN [status |-> 400, body |-> "invalid link"]
    ELSE IF err = "Conflict" THEN [status |-> 409, body |-> "conflict"]
    ELSE [status |-> 500, body |-> "unknown server error"]

\* the handler that inserts the row whatever RootCid::push answers
HandlerPushUnchecked(req, rows) ==
    [req |-> [req EXCEPT !.pc = "committed", !.installed = TRUE],
     rows |-> Append(rows, [cid |-> req.cid, previous_cid |-> req.previous_cid])]

\* push_root handler, first half: begin, RootCid::push, commit
HandlerPush(req, rows) ==
    Let(RootCidPush(req.cid, req.previous_cid, rows), LAMBDA r :
        IF r.err # "none"
        THEN Let(into_response(r.err), LAMBDA resp :
                 [req |-> [req EXCEPT !.pc = "done", !.err = r.err,
                                      !.status = resp.status, !.body = resp.body],
                  rows |-> rows])
        ELSE [req |-> [req EXCEPT !.pc = "committed", !.installed = TRUE],
              rows |-> r.rows])

\* push_root handler, second half: update of the in-process mount, response
HandlerMountUpdate(req, mount, store) ==
    Let(MountUpdate(mount, req.cid, store), LAMBDA u :
        IF u.err # "none"
        THEN Let(into_response(u.err), LAMBDA resp :
                 [req |-> [req EXCEPT !.pc = "done", !.err = u.err,
                                      !.status = resp.status, !.body = resp.body],
                  mount |-> u.mount])
        ELSE [req |-> [req EXCEPT !.pc = "done", !.status = 200, !.body = "ok"],
              mount |-> u.mount])

\* AppState::from_config on an empty database
ServerFromConfig(store) ==
    Let(MountInit(store), LAMBDA r :
        [mount |-> r.mount, blocks |-> r.blocks,
         rows |-> RootCidPush(r.mount.cid, r.mount.manifest.previous, <<>>).rows])

\* what a client does to its mount before it posts a root: pull of a base
\* root and then the change, set_previous and push ("linked"), the change and
\* push ("unlinked"), or set_previous and the change ("unpushed")
PostPaths == {p \in Paths : Len(p) = 1}
PostChanges == {[op |-> "add", path |-> p] : p \in PostPaths} \cup {[op |-> "rm", path |-> <<"a">>]}
PostKinds == {"linked", "unlinked", "unpushed"}

ClientPrepare(base, change, kind, previous, store) ==
    Let(MountPull(base, store).mount, LAMBDA pulled :
    Let(IF kind = "unpushed" THEN MountSetPrevious(pulled, previous) ELSE pulled, LAMBDA m0 :
    Let(IF change.op = "add" THEN MountAdd(m0, change.path, "x", FALSE, store)
        ELSE MountRm(m0, change.path, store),
        LAMBDA r1 :
            IF kind = "linked"
            THEN MountPush(MountSetPrevious(r1.mount, previous), r1.blocks)
            ELSE IF kind = "unlinked" THEN MountPush(r1.mount, r1.blocks)
            ELSE r1)))

Other(c) == CHOOSE d \in MountIds : d # c

\* Init::execute of the command-line client: Mount::init, push, and a
\* push_root(cid, default) whose rejection is tolerated
CliInitExecute(store, rows) ==
    Let(MountInit(store), LAMBDA i :
    Let(MountPush(i.mount, i.blocks), LAMBDA r :
        [mount |-> r.mount, blocks |-> r.blocks,
         rows |-> RootCidPush(r.mount.cid, DefaultCid, rows).rows,
         disk |-> [cid |-> r.mount.cid, previous_cid |-> r.mount.cid]]))

\* a server started on an empty database, and one client initialised against it
InitCoord ==
    \E srv \in {ServerFromConfig({})} :
    \E s \in {CliInitExecute(srv.blocks, srv.rows)} :
        /\ blocks = s.blocks
        /\ mounts = [m \in MountIds |-> NoMount]
        /\ files = EmptyMap
        /\ last = Op("init", "A", <<>>, NoArg, FALSE, "none", NoMount)
        /\ nops = 0
        /\ chain = s.rows
        /\ server = srv.mount
        /\ reqs = [c \in MountIds |-> NoReq]
        /\ disk = [c \in MountIds |-> NoDisk]
        /\ pushed = <<>>
        /\ scen = NoScen

\* client c prepares a root and posts push_root(cid, previous_cid)
Post(c) ==
    \E base \in ChainCids(chain), change \in PostChanges, kind \in PostKinds,
       previous \in ChainCids(chain) :
        /\ previous \in {ChainHead(chain), base}
        /\ reqs[c].pc \in {"idle", "done"} /\ nops < MaxPosts
        /\ MountPull(base, blocks).err = "none"
        /\ \E r \in {ClientPrepare(base, change, kind, previous, blocks)} :
               /\ r.err = "none"
               /\ mounts' = [mounts EXCEPT ![c] = r.mount]
               /\ blocks' = r.blocks
               /\ reqs' = [reqs EXCEPT ![c] =
                     [NoReq EXCEPT !.pc = "sent", !.cid = r.mount.cid,
                                   !.previous_cid = previous,
                                   !.id = nops + 1,
                                   !.head = ChainHead(chain),
                                   !.rival = IF reqs[Other(c)].pc = "sent"
                                             THEN reqs[Other(c)].id ELSE 0]]
        /\ nops' = nops + 1
        /\ UNCHANGED <<files, last, chain, server, disk, pushed, scen>>

\* the handler of c's request runs its transaction
HandlerTxn(c) ==
    /\ reqs[c].pc = "sent"
    /\ \E h \in {HandlerPush(reqs[c], chain)} :
           /\ reqs' = [reqs EXCEPT ![c] = h.req]
           /\ chain' = h.rows
    /\ UNCHANGED <<blocks, mounts, files, last, nops, server, disk, pushed, scen>>

\* the handler of c's request updates the server's mount and answers
HandlerUpdate(c) ==
    /\ reqs[c].pc = "committed"
    /\ \E h \in {HandlerMountUpdate(reqs[c], server, blocks)} :
           /\ reqs' = [reqs EXCEPT ![c] = h.req]
           /\ server' = h.mount
           /\ pushed' = IF h.req.status = 200 THEN Append(pushed, reqs[c].cid) ELSE pushed
    /\ UNCHANGED <<blocks, mounts, files, last, nops, chain, disk, scen>>

NextCoord ==
    \/ \E c \in MountIds : Post(c)
    \/ \E c \in MountIds : HandlerTxn(c)
    \/ \E c \in MountIds : HandlerUpdate(c)

SpecCoord == InitCoord /\ [][NextCoord]_vars

----------------------------------------------------------------------------
(* Properties of the coordinator *)

Decided(c) == reqs[c].pc \in {"committed", "done"}
Rejected409(c) == reqs[c].pc = "done" /\ reqs[c].status = 409 /\ reqs[c].body = "conflict"

\* requests c and d were in flight together, both name the head they were
\* posted at as previous, and carry different roots
Raced(c, d) ==
    /\ c # d /\ Decided(c) /\ Decided(d)
    /\ reqs[c].rival = reqs[d].id /\ reqs[d].id # 0
    /\ reqs[c].previous_cid = reqs[d].previous_cid
    /\ reqs[c].head = reqs[c].previous_cid /\ reqs[d].head = reqs[d].previous_cid
    /\ reqs[c].cid # reqs[d].cid

OneWinner(c, d) ==
    \/ reqs[c].installed /\ ~reqs[d].installed /\ Rejected409(d)
    \/ reqs[d].installed /\ ~reqs[c].installed /\ Rejected409(c)

RootPrevious(cid) == get_manifest(cid, blocks).v.previous

\* C5: a root whose manifest has previous # previous_root is rejected with
\* InvalidLink and never installed, so that the manifest of every installed
\* head names the prior head as its previous
UnlinkedRootsRejected ==
    /\ \A c \in MountIds :
          (Decided(c) /\ RootPrevious(reqs[c].cid) # reqs[c].previous_cid) =>
              /\ ~reqs[c].installed
              /\ reqs[c].pc = "done" /\ reqs[c].status = 400 /\ reqs[c].body = "invalid link"
    /\ \A i \in 2..Len(chain) : RootPrevious(chain[i].cid) = chain[i - 1].cid

\* C7: update(c) of the server's mount succeeds only if the manifest of c
\* names the mount's root as its previous, a manifest that names another
\* root fails it with PreviousCidMismatch, and a failed update leaves the
\* mount's cid, manifest and block cache as they were
UpdateChecksPrevious ==
    [][\A c \in MountIds :
        (reqs[c].pc = "committed" /\ reqs'[c].pc = "done") =>
            /\ reqs'[c].status = 200 =>
                  /\ RootPrevious(reqs[c].cid) = server.cid
                  /\ server'.cid = reqs[c].cid
            /\ RootPrevious(reqs[c].cid) # server.cid =>
                  reqs'[c].err = "PreviousCidMismatch"
            /\ reqs'[c].status # 200 => server' = server]_vars

UpdateChecksPreviousWitness ==
    \E c \in MountIds :
        /\ reqs[c].pc = "done" /\ reqs[c].err = "PreviousCidMismatch" /\ reqs[c].installed
        /\ reqs[Other(c)].pc = "done" /\ reqs[Other(c)].err = "IpfsRpc"
        /\ reqs[Other(c)].installed
        /\ RootPrevious(reqs[Other(c)].cid) = InitMount.cid
        /\ server = InitMount

----------------------------------------------------------------------------
(* The command-line client (leaky-cli): add, pull and push over the       *)
(* on-disk state [cid, previous_cid]                                       *)

\* Add::execute with one change in the working directory
AddExecute(d, change, store) ==
    Let(MountPull(d.cid, store), LAMBDA p :
        IF p.err # "none" THEN [err |-> p.err, disk |-> d, blocks |-> store]
        ELSE Let(IF change.op = "add"
                 THEN MountAdd(p.mount, change.path, "x", FALSE, store)
                 ELSE MountRm(p.mount, change.path, store),
                 LAMBDA r :
                    IF r.err # "none" THEN [err |-> r.err, disk |-> d, blocks |-> r.blocks]
                    ELSE Let(MountPush(r.mount, r.blocks), LAMBDA q :
                             [err |-> "none", disk |-> [d EXCEPT !.cid = q.mount.cid],
                              blocks |-> q.blocks])))

\* Pull::execute: pull_root, Mount::pull, save with the pulled root as previous
PullExecute(d, rows, store) ==
    Let(ChainHead(rows), LAMBDA head :
    Let(MountPull(head, store), LAMBDA p :
        IF p.err # "none" THEN [err |-> p.err, disk |-> d]
        ELSE [err |-> "none", disk |-> [cid |-> head, previous_cid |-> head]]))

\* a push command that posts the pulled mount without set_previous
PushExecuteUnlinked(d, store) ==
    Let(MountPull(d.cid, store), LAMBDA p :
        IF d.cid = d.previous_cid THEN [err |-> "nochange", blocks |-> store]
        ELSE IF p.err # "none" THEN [err |-> p.err, blocks |-> store]
        ELSE Let(MountPush(p.mount, store), LAMBDA q :
                 [err |-> "none", mount |-> q.mount, blocks |-> q.blocks,
                  cid |-> q.mount.cid, previous_cid |-> d.previous_cid]))

\* Push::execute up to the push_root call
PushExecute(d, store) ==
    Let(MountPull(d.cid, store), LAMBDA p :
        IF d.cid = d.previous_cid THEN [err |-> "nochange", blocks |-> store]
        ELSE IF p.err # "none" THEN [err |-> p.err, blocks |-> store]
        ELSE Let(MountPush(MountSetPrevious(p.mount, d.previous_cid), store), LAMBDA q :
                 [err |-> "none", mount |-> q.mount, blocks |-> q.blocks,
                  cid |-> q.mount.cid, previous_cid |-> d.previous_cid]))

\* a save that writes whatever the coordinator answered
PushExecuteSaveAlways(d, mount, status) == [cid |-> mount.cid, previous_cid |-> mount.cid]

\* Push::execute after the push_root call: save on 200, nothing otherwise
PushExecuteSave(d, mount, status) ==
    IF status = 200 THEN [cid |-> mount.cid, previous_cid |-> mount.cid] ELSE d

\* a server started on an empty database, and both clients initialised
InitCli ==
    \E srv \in {ServerFromConfig({})} :
    \E s \in {CliInitExecute(srv.blocks, srv.rows)} :
        /\ blocks = s.blocks
        /\ mounts = [m \in MountIds |-> NoMount]
        /\ files = EmptyMap
        /\ last = Op("init", "A", <<>>, NoArg, FALSE, "none", NoMount)
        /\ nops = 0
        /\ chain = s.rows
        /\ server = srv.mount
        /\ reqs = [c \in MountIds |-> NoReq]
        /\ disk = [c \in MountIds |-> s.disk]
        /\ pushed = <<>>
        /\ scen = NoScen

CliAdd(c) ==
    \E change \in PostChanges :
        /\ reqs[c].pc = "idle" /\ nops < MaxCliOps
        /\ \E r \in {AddExecute(disk[c], change, blocks)} :
               /\ r.err = "none"
               /\ disk' = [disk EXCEPT ![c] = r.disk]
               /\ blocks' = r.blocks
        /\ nops' = nops + 1
        /\ UNCHANGED <<mounts, files, last, chain, server, reqs, pushed, scen>>

CliPull(c) ==
    /\ reqs[c].pc = "idle"
    /\ \E r \in {PullExecute(disk[c], chain, blocks)} :
           /\ r.err = "none"
           /\ disk' = [disk EXCEPT ![c] = r.disk]
    /\ UNCHANGED <<blocks, mounts, files, last, nops, chain, server, reqs, pushed, scen>>

CliPushStart(c) ==
    /\ reqs[c].pc = "idle"
    /\ \E r \in {PushExecute(disk[c], blocks)} :
           /\ r.err = "none"
           /\ mounts' = [mounts EXCEPT ![c] = r.mount]
           /\ blocks' = r.blocks
           /\ reqs' = [reqs EXCEPT ![c] =
                 [NoReq EXCEPT !.pc = "sent", !.cid = r.cid,
                               !.previous_cid = r.previous_cid,
                               !.head = ChainHead(chain)]]
    /\ UNCHANGED <<files, last, nops, chain, server, disk, pushed, scen>>

CliPushFinish(c) ==
    /\ reqs[c].pc = "done"
    /\ disk' = [disk EXCEPT ![c] = PushExecuteSave(@, mounts[c], reqs[c].status)]
    /\ reqs' = [reqs EXCEPT ![c] = NoReq]
    /\ UNCHANGED <<blocks, mounts, files, last, nops, chain, server, pushed, scen>>

NextCli ==
    \/ \E c \in MountIds : CliAdd(c)
    \/ \E c \in MountIds : CliPull(c)
    \/ \E c \in MountIds : CliPushStart(c)
    \/ \E c \in MountIds : HandlerTxn(c)
    \/ \E c \in MountIds : HandlerUpdate(c)
    \/ \E c \in MountIds : CliPushFinish(c)

SpecCli == InitCli /\ [][NextCli]_vars

----------------------------------------------------------------------------
(* Two writers on one root: mounts A and B are pulled at the head, A adds  *)
(* and pushes, B adds and pushes, B calls update(head), then pulls the     *)
(* head afresh, re-applies its change and pushes again.  A push is         *)
(* set_previous(root the mount is based on), Mount::push, push_root.       *)

InitScen ==
    \E pa \in Paths, pb \in Paths, da \in Payloads, db \in Payloads :
    \E srv \in {ServerFromConfig({})} :
    \E s \in {CliInitExecute(srv.blocks, srv.rows)} :
    \E m \in {MountPull(ChainHead(s.rows), s.blocks).mount} :
        /\ blocks = s.blocks
        /\ mounts = [c \in MountIds |-> m]
        /\ files = EmptyMap
        /\ last = Op("pull", "B", <<>>, NoArg, FALSE, "none", NoMount)
        /\ nops = 0
        /\ chain = s.rows
        /\ server = srv.mount
        /\ reqs = [c \in MountIds |-> NoReq]
        /\ disk = [c \in MountIds |-> NoDisk]
        /\ pushed = <<>>
        /\ scen = [pc |-> "addA",
                   change |-> [c \in MountIds |->
                                 IF c = "A" THEN [path |-> pa, data |-> da]
                                 ELSE [path |-> pb, data |-> db]],
                   base |-> [c \in MountIds |-> ChainHead(s.rows)],
                   upd |-> NoArg, first |-> NoReq]

\* mount m applies its change
ScenAdd(m, from, to) ==
    /\ scen.pc = from /\ \A c \in MountIds : reqs[c].pc \in {"idle", "done"}
    /\ \E r \in {MountAdd(mounts[m], scen.change[m].path, scen.change[m].data, FALSE,
                          blocks)} :
           /\ mounts' = [mounts EXCEPT ![m] = r.mount]
           /\ blocks' = r.blocks
           /\ last' = Op("add", m, scen.change[m].path, scen.change[m].data, FALSE,
                         r.err, mounts[m])
    /\ scen' = [scen EXCEPT !.pc = to]
    /\ UNCHANGED <<files, nops, chain, server, reqs, disk, pushed>>

\* mount m pushes on top of the root it is based on
ScenPush(m, from, to) ==
    /\ scen.pc = from
    /\ \E r \in {MountPush(MountSetPrevious(mounts[m], scen.base[m]), blocks)} :
           /\ mounts' = [mounts EXCEPT ![m] = r.mount]
           /\ blocks' = r.blocks
           /\ last' = Op("push", m, <<>>, NoArg, FALSE, r.err, mounts[m])
           /\ reqs' = [reqs EXCEPT ![m] =
                 [NoReq EXCEPT !.pc = "sent", !.cid = r.mount.cid,
                               !.previous_cid = scen.base[m],
                               !.head = ChainHead(chain)]]
    /\ scen' = [scen EXCEPT !.pc = to]
    /\ UNCHANGED <<files, nops, chain, server, disk, pushed>>

\* B calls update(latest)
ScenUpdate ==
    /\ scen.pc = "update" /\ reqs["B"].pc = "done"
    /\ \E r \in {MountUpdate(mounts["B"], ChainHead(chain), blocks)} :
           /\ mounts' = [mounts EXCEPT !["B"] = r.mount]
           /\ last' = Op("update", "B", <<>>, ChainHead(chain), FALSE, r.err, mounts["B"])
           /\ scen' = [scen EXCEPT !.pc = "pull", !.upd = r.err, !.first = reqs["B"]]
    /\ UNCHANGED <<blocks, files, nops, chain, server, reqs, disk, pushed>>

\* B drops its mount and pulls the head afresh
ScenPull ==
    /\ scen.pc = "pull"
    /\ \E r \in {MountPull(ChainHead(chain), blocks)} :
           /\ r.err = "none"
           /\ mounts' = [mounts EXCEPT !["B"] = r.mount]
           /\ last' = Op("pull", "B", <<>>, ChainHead(chain), FALSE, r.err, mounts["B"])
    /\ scen' = [scen EXCEPT !.pc = "readd", !.base["B"] = ChainHead(chain)]
    /\ UNCHANGED <<blocks, files, nops, chain, server, reqs, disk, pushed>>

ScenEnd ==
    /\ scen.pc = "repush" /\ reqs["B"].pc = "done" /\ reqs["B"].previous_cid = scen.base["B"]
    /\ scen' = [scen EXCEPT !.pc = "end"]
    /\ UNCHANGED <<blocks, mounts, files, last, nops, chain, server, reqs, disk, pushed>>

NextScen ==
    \/ ScenAdd("A", "addA", "pushA")
    \/ ScenPush("A", "pushA", "addB")
    \/ ScenAdd("B", "addB", "pushB")
    \/ ScenPush("B", "pushB", "update")
    \/ ScenUpdate
    \/ ScenPull
    \/ ScenAdd("B", "readd", "repush0")
    \/ ScenPush("B", "repush0", "repush")
    \/ ScenEnd
    \/ \E c \in MountIds : HandlerTxn(c)
    \/ \E c \in MountIds : HandlerUpdate(c)

SpecScen == InitScen /\ [][NextScen]_vars

\* the premise of the scenario: A's push was answered 200 and B's first push
\* was answered Conflict
ScenPremise ==
    /\ scen.pc \in {"pull", "readd", "repush0", "repush", "end"}
    /\ reqs["A"].status = 200
    /\ scen.first.pc = "done" /\ scen.first.status = 409 /\ scen.first.body = "conflict"

----------------------------------------------------------------------------
(* Schemas and objects: add, tag and set_schema along one chain of         *)
(* directories, deep enough for a schema two levels above a file           *)

\* number of operations applied to the mount of the chain
MaxTagOps == 4
\* length of the longest path of the chain
MaxTagDepth == 3

\* the chain /a, /a/b, /a/b/a, ...
ChainPath(k) == [i \in 1..k |-> NameOrder[((i - 1) % Len(NameOrder)) + 1]]
ChainPaths == {ChainPath(k) : k \in 1..MaxTagDepth}

AuthorSchema == [p \in {"author"} |-> [property_type |-> "str", required |-> TRUE]]
ChainSchemas == {TitleSchema, AuthorSchema}

AddOnChain ==
    \E path \in ChainPaths, data \in Payloads :
        /\ nops < MaxTagOps
        /\ \E r \in {MountAdd(mounts["A"], path, data, FALSE, blocks)} :
               /\ r.err # "panic"
               /\ mounts' = [mounts EXCEPT !["A"] = r.mount]
               /\ blocks' = r.blocks
               /\ last' = Op("add", "A", path, data, FALSE, r.err, mounts["A"])
        /\ nops' = nops + 1
        /\ UNCHANGED <<files, coordVars>>

TagOnChain ==
    \E path \in ChainPaths, object \in ObjectInputs :
        /\ nops < MaxTagOps
        /\ \E r \in {MountTag(mounts["A"], path, object, blocks)} :
               /\ r.err # "panic"
               /\ mounts' = [mounts EXCEPT !["A"] = r.mount]
               /\ blocks' = r.blocks
               /\ last' = Op("tag", "A", path, object, FALSE, r.err, mounts["A"])
        /\ nops' = nops + 1
        /\ UNCHANGED <<files, coordVars>>

SetSchemaOnChain ==
    \E path \in ChainPaths, schema \in ChainSchemas :
        /\ nops < MaxTagOps
        /\ \E r \in {MountSetSchema(mounts["A"], path, schema, blocks)} :
               /\ r.err # "panic"
               /\ mounts' = [mounts EXCEPT !["A"] = r.mount]
               /\ blocks' = r.blocks
               /\ last' = Op("set_schema", "A", path, schema, FALSE, r.err, mounts["A"])
        /\ nops' = nops + 1
        /\ UNCHANGED <<files, coordVars>>

NextTag == AddOnChain \/ TagOnChain \/ SetSchemaOnChain

SpecTag == Init /\ [][NextTag]_vars

----------------------------------------------------------------------------
(* Properties of tag and set_schema *)

\* the link a mount has at a path, and the node it has there
LinkAt(mount, path) == get_node_link_at_path(mount, path)
NodeAt(mount, path) ==
    Let(LinkAt(mount, path), LAMBDA nl :
        IF nl.err # "none" THEN [err |-> nl.err]
        ELSE IF nl.v.kind = "Data" THEN [err |-> "PathNotDir"]
        ELSE get_cache(nl.v.cid, mount.block_cache))

IsDataAt(mount, path) == LinkAt(mount, path).err = "none" /\ LinkAt(mount, path).v.kind = "Data"
IsNodeAt(mount, path) == NodeAt(mount, path).err = "none"
\* the schema carried by the node that encloses path, None when it has none
EnclosingSchema(mount, path) == NodeAt(mount, Front(path)).v.schema

\* the last operation was a tag of an existing data link whose enclosing
\* node carries a schema
TaggedUnderSchema ==
    /\ last.op = "tag" /\ IsDataAt(last.pre, last.path)
    /\ EnclosingSchema(last.pre, last.path).some

\* C11: tag(p, o) of an existing data link whose enclosing node carries a
\* schema S succeeds iff o validates against S; when it fails, it fails with
\* SchemaValidation, the root identifier and the manifest are unchanged and
\* the link keeps its previous object
TagValidatesAgainstSchema ==
    TaggedUnderSchema =>
        /\ last.err = "none" <=> SchemaValidate(EnclosingSchema(last.pre, last.path).v, last.arg)
        /\ last.err = "none" =>
              /\ LinkAt(mounts["A"], last.path).v.object.some
              /\ LinkAt(mounts["A"], last.path).v.object.v.metadata = last.arg.metadata
        /\ last.err # "none" =>
              /\ last.err = SchemaValidation
              /\ mounts["A"].cid = last.pre.cid
              /\ mounts["A"].manifest = last.pre.manifest
              /\ LinkAt(mounts["A"], last.path) = LinkAt(last.pre, last.path)

TagValidatesAgainstSchemaWitness ==
    /\ TaggedUnderSchema /\ last.err = SchemaValidation /\ Len(last.path) = 2
    /\ LinkAt(last.pre, last.path).v.object.some
    /\ LinkAt(mounts["A"], last.path).v.object = LinkAt(last.pre, last.path).v.object
    /\ mounts["A"].cid = last.pre.cid

RECURSIVE NearestSchema(_, _)
\* the schema of the nearest node above path that carries one: the schema
\* the specification calls effective
NearestSchema(mount, dir) ==
    IF IsNodeAt(mount, dir) /\ NodeAt(mount, dir).v.schema.some
    THEN NodeAt(mount, dir).v.schema
    ELSE IF dir = <<>> THEN None
    ELSE NearestSchema(mount, Front(dir))

\* C12: with a schema S installed on an ancestor directory of a data link
\* (and nearer ancestors carrying an overriding schema, if any), tag
\* succeeds for an object valid under the nearest schema and fails with
\* SchemaValidation for an invalid one
TagValidatesAgainstInherited ==
    (/\ last.op = "tag" /\ IsDataAt(last.pre, last.path)
     /\ NearestSchema(last.pre, Front(last.path)).some)
    => /\ last.err = "none" <=>
              SchemaValidate(NearestSchema(last.pre, Front(last.path)).v, last.arg)
       /\ last.err # "none" => last.err = SchemaValidation

\* C13: after a successful set_schema(p, S) on a path that is absent or
\* names a node, ls(p) reports schema S and the node at p has the links it
\* had before the call, none if it was created by the call
SetSchemaInstalls ==
    (last.op = "set_schema" /\ last.err = "none" /\ ~IsDataAt(last.pre, last.path))
    => /\ MountLs(mounts["A"], last.path, FALSE).err = "none"
       /\ MountLs(mounts["A"], last.path, FALSE).schema = Some(last.arg)
       /\ MountLs(mounts["A"], last.path, FALSE).items =
              IF IsNodeAt(last.pre, last.path)
              THEN MountLs(last.pre, last.path, FALSE).items ELSE <<>>

\* C14: set_schema(p, S) on a path that names an existing data link fails
\* with SchemaOnData and leaves the root identifier and the manifest as
\* they were
SetSchemaOnDataFails ==
    (last.op = "set_schema" /\ IsDataAt(last.pre, last.path))
    => /\ last.err = SchemaOnData
       /\ mounts["A"].cid = last.pre.cid
       /\ mounts["A"].manifest = last.pre.manifest

SetSchemaOnDataFailsWitness ==
    /\ last.op = "set_schema" /\ IsDataAt(last.pre, last.path) /\ Len(last.path) = 2
    /\ NodeAt(last.pre, Front(last.path)).v.schema.some
    /\ last.err = SchemaOnData /\ mounts["A"].cid = last.pre.cid

\* C15: tag(p, o) fails with PathNotFound when the terminal name of p is
\* absent from its node, names a node, or an interior segment of p is
\* absent; a tag that returns success has attached the object
TagOffDataFails ==
    /\ (/\ last.op = "tag"
        /\ \/ LinkAt(last.pre, last.path).err = "PathNotFound"
           \/ IsNodeAt(last.pre, last.path))
       => last.err = "PathNotFound"
    /\ (last.op = "tag" /\ last.err = "none")
       => /\ IsDataAt(mounts["A"], last.path)
          /\ LinkAt(mounts["A"], last.path).v.object.some
          /\ LinkAt(mounts["A"], last.path).v.object.v.metadata = last.arg.metadata

\* path has an interior segment that names a data link of the mount
DataInside(mount, path) ==
    \E k \in 1..(Len(path) - 1) : IsDataAt(mount, SubSeq(path, 1, k))

\* C16: an add, tag, set_schema or rm whose path has an interior segment
\* that names a data link fails with DataOnPath and leaves the root
\* identifier and the manifest as they were
DataOnPathFails ==
    (last.op \in {"add", "tag", "set_schema", "rm"} /\ DataInside(last.pre, last.path))
    => /\ last.err = DataOnPath
       /\ mounts["A"].cid = last.pre.cid
       /\ mounts["A"].manifest = last.pre.manifest

DataOnPathFailsWitness ==
    /\ last.op = "rm" /\ DataInside(last.pre, last.path)
    /\ last.err = DataOnPath /\ mounts["A"].cid = last.pre.cid
    /\ MountLs(mounts["A"], <<>>, TRUE) = MountLs(last.pre, <<>>, TRUE)

\* the object a mount stores on the data link at path
ObjectAt(mount, path) == LinkAt(mount, path).v.object

\* C17: a tag(p, o) that follows a successful tag(p, o) with the same o
\* succeeds, gives the same root identifier, and the stored object keeps the
\* created_at it had after the first call
TagTwiceIsIdempotent ==
    [][(/\ last.op = "tag" /\ last.err = "none"
        /\ last'.op = "tag" /\ last'.path = last.path /\ last'.arg = last.arg)
       => /\ last'.err = "none"
          /\ mounts'["A"].cid = mounts["A"].cid
          /\ IsDataAt(mounts["A"], last.path) =>
                /\ ObjectAt(mounts["A"], last.path).some
                /\ ObjectAt(mounts'["A"], last.path) = ObjectAt(mounts["A"], last.path)]_vars

TagTwiceIsIdempotentWitness ==
    /\ last.op = "tag" /\ last.err = "none" /\ IsDataAt(last.pre, last.path)
    /\ mounts["A"].cid = last.pre.cid
    /\ ObjectAt(mounts["A"], last.path) = ObjectAt(last.pre, last.path)
    /\ ObjectAt(mounts["A"], last.path).v.metadata = last.arg.metadata
    /\ ObjectAt(mounts["A"], last.path).v.updated_at = last.arg.updated_at
    /\ ObjectAt(mounts["A"], last.path).v.created_at # last.arg.created_at

\* the time of the last call: the input objects were constructed before any
\* call was made, and every call happens later than the one before it
InputTimes == {o.created_at : o \in ObjectInputs} \cup {o.updated_at : o \in ObjectInputs}
CallTime == nops + (CHOOSE t \in InputTimes : \A u \in InputTimes : u <= t)

\* C18: a tag(p, o2) of a data link that carries an object o1 stores an
\* object whose created_at is o1's and whose updated_at is the time of the
\* call
TagRefreshesUpdatedAt ==
    (/\ last.op = "tag" /\ last.err = "none"
     /\ IsDataAt(last.pre, last.path) /\ ObjectAt(last.pre, last.path).some)
    => /\ ObjectAt(mounts["A"], last.path).v.created_at =
              ObjectAt(last.pre, last.path).v.created_at
       /\ ObjectAt(mounts["A"], last.path).v.updated_at = CallTime

----------------------------------------------------------------------------
(* Properties of the root node and of rm *)

\* the manifest names a root node, and the block cache holds it
RootPresent(mount) ==
    /\ mount.manifest.data # DefaultCid
    /\ mount.manifest.data \in mount.block_cache
    /\ get_cache(mount.manifest.data, mount.block_cache).err = "none"

RmOfAbsentChangesNothing ==
    (last.op = "rm" /\ LinkAt(last.pre, last.path).err = "PathNotFound")
    => /\ last.err = "none"
       /\ mounts["A"].cid = last.pre.cid
       /\ mounts["A"].manifest = last.pre.manifest
       /\ MountLs(mounts["A"], <<>>, TRUE) = MountLs(last.pre, <<>>, TRUE)
       /\ \A p \in RefDirs : MountLs(mounts["A"], p, FALSE) = MountLs(last.pre, p, FALSE)

RmOfAbsentChangesNothingWitness ==
    /\ last.op = "rm" /\ last.err = "none" /\ Len(last.path) = MaxDepth
    /\ IsNodeAt(last.pre, Front(last.path))
    /\ LinkAt(last.pre, last.path).err = "PathNotFound"
    /\ mounts["A"].cid = last.pre.cid
    /\ Len(MountLs(mounts["A"], <<>>, TRUE).items) = 2

----------------------------------------------------------------------------
(* Push: repeated, and failing at a store call *)

\* number of add and rm calls before and between the pushes
MaxPushOps == 2

\* Mount::push, at any time; flag tells that it follows a failed push
PushAgain ==
    /\ \E r \in {MountPush(mounts["A"], blocks)} :
           /\ mounts' = [mounts EXCEPT !["A"] = r.mount]
           /\ blocks' = r.blocks
           /\ last' = Op("push", "A", <<>>, NoArg, last.op = "push" /\ last.err # "none",
                         r.err, mounts["A"])
    /\ UNCHANGED <<files, nops, coordVars>>

\* Mount::push that fails at a put of a cache block (stored is a proper
\* subset of the cache) or at the put of the manifest (stored is the cache)
PushFails ==
    /\ ~(last.op = "push" /\ last.err # "none")
    /\ \E stored \in SUBSET mounts["A"].block_cache :
       \E r \in {MountPushFailing(mounts["A"], blocks, stored)} :
           /\ mounts' = [mounts EXCEPT !["A"] = r.mount]
           /\ blocks' = r.blocks
           /\ last' = Op("push", "A", <<>>, stored, FALSE, r.err, mounts["A"])
    /\ UNCHANGED <<files, nops, coordVars>>

\* Mount::add whose put of the manifest fails
AddFailsAtManifest ==
    \E path \in Paths, data \in Payloads :
        /\ nops < MaxPushOps
        /\ \E r \in {MountAddFailing(mounts["A"], path, data, FALSE, blocks)} :
               /\ r.err = "IpfsRpc"
               /\ mounts' = [mounts EXCEPT !["A"] = r.mount]
               /\ blocks' = r.blocks
               /\ last' = Op("add", "A", path, data, FALSE, r.err, mounts["A"])
               /\ files' = FilesAdd(files, path, data)
        /\ nops' = nops + 1
        /\ UNCHANGED coordVars

\* Mount::set_previous with the root the mount has
SetPrevious ==
    /\ nops < MaxPushOps
    /\ mounts' = [mounts EXCEPT !["A"] = MountSetPrevious(mounts["A"], mounts["A"].cid)]
    /\ last' = Op("set_previous", "A", <<>>, mounts["A"].cid, FALSE, "none", mounts["A"])
    /\ nops' = nops + 1
    /\ UNCHANGED <<blocks, files, coordVars>>

NextPush ==
    \/ Add("A", MaxPushOps)
    \/ Rm("A", MaxPushOps)
    \/ PushAgain
    \/ PushFails
    \/ AddFailsAtManifest
    \/ SetPrevious

SpecPush == Init /\ [][NextPush]_vars

\* C21: a push that fails at a store call leaves root identifier, manifest
\* and block cache as they were before it, and a later push succeeds and
\* stores a root that can be pulled
FailedPushKeepsMount ==
    /\ (last.op = "push" /\ last.err # "none")
       => /\ mounts["A"] = last.pre
          /\ MountPush(mounts["A"], blocks).err = "none"
    /\ (last.op = "push" /\ last.err = "none" /\ last.flag)
       => /\ mounts["A"].manifest = last.pre.manifest
          /\ mounts["A"].block_cache = last.pre.block_cache
          /\ MountPull(mounts["A"].cid, blocks).err = "none"

FailedPushKeepsMountWitness ==
    /\ last.op = "push" /\ last.err = "none" /\ last.flag /\ nops = MaxPushOps
    /\ MountPull(mounts["A"].cid, blocks).err = "none"
    /\ Len(MountLs(MountPull(mounts["A"].cid, blocks).mount, <<>>, TRUE).items) = 2

\* C22: a push that follows a successful push with no mutation in between
\* gives the same root identifier and leaves the manifest, the block cache
\* and the blocks of the store unchanged
PushTwiceIsIdempotent ==
    [][(last.op = "push" /\ last.err = "none" /\ last'.op = "push" /\ last'.err = "none")
       => (mounts' = mounts /\ blocks' = blocks)]_vars

PushTwiceIsIdempotentWitness ==
    /\ last.op = "push" /\ last.err = "none" /\ ~last.flag /\ nops = MaxPushOps
    /\ last.pre = mounts["A"] /\ mounts["A"].cid \in blocks
    /\ mounts["A"].block_cache \subseteq blocks
    /\ Len(MountLs(mounts["A"], <<>>, TRUE).items) = 2

----------------------------------------------------------------------------
(* The server's mount and the head *)

\* no push_root request is inside its handler
Quiescent == \A c \in MountIds : reqs[c].pc \in {"idle", "done"}

\* C23: once every push_root request has completed, the root identifier of
\* the server's in-process mount equals the coordinator's head
ServerMountFollowsHead ==
    Quiescent => server.cid = ChainHead(chain)

----------------------------------------------------------------------------
(* Reserved names as path segments *)

\* number of calls with paths that may hold a reserved name
MaxReservedOps == 3

ReservedSegments == {"a"} \cup ReservedNames
ReservedPaths ==
    {<<n>> : n \in ReservedSegments} \cup {<<n, k>> : n, k \in ReservedSegments}

AddReserved ==
    \E path \in ReservedPaths :
        /\ nops < MaxReservedOps
        /\ \E r \in {MountAdd(mounts["A"], path, "x", FALSE, blocks)} :
               /\ r.err # "panic"
               /\ mounts' = [mounts EXCEPT !["A"] = r.mount]
               /\ blocks' = r.blocks
               /\ last' = Op("add", "A", path, "x", FALSE, r.err, mounts["A"])
        /\ nops' = nops + 1
        /\ UNCHANGED <<files, coordVars>>

SetSchemaReserved ==
    \E path \in ReservedPaths :
        /\ nops < MaxReservedOps
        /\ \E r \in {MountSetSchema(mounts["A"], path, TitleSchema, blocks)} :
               /\ r.err # "panic"
               /\ mounts' = [mounts EXCEPT !["A"] = r.mount]
               /\ blocks' = r.blocks
               /\ last' = Op("set_schema", "A", path, TitleSchema, FALSE, r.err, mounts["A"])
        /\ nops' = nops + 1
        /\ UNCHANGED <<files, coordVars>>

NextReserved == AddReserved \/ SetSchemaReserved

SpecReserved == Init /\ [][NextReserved]_vars

\* the call would create a link under a reserved name: an add whose first
\* reserved segment is not below a data link, or a set_schema whose terminal
\* segment is reserved and whose enclosing path is a node without a schema
\* (under a node with a schema set_schema creates nothing)
CreatesReservedLink(mount, op, path) ==
    IF op = "add"
    THEN \E i \in 1..Len(path) :
            /\ path[i] \in ReservedNames
            /\ \A k \in 1..(i - 1) : ~IsDataAt(mount, SubSeq(path, 1, k))
    ELSE /\ op = "set_schema"
         /\ Last(path) \in ReservedNames
         /\ IsNodeAt(mount, Front(path))
         /\ ~NodeAt(mount, Front(path)).v.schema.some

\* the encoded node blocks of a block cache with a link under a reserved key
ReservedLinks(cache) ==
    {c \in cache : \E k \in ReservedNames \cap DOMAIN c.hash.v : c.hash.v[k].t = "link"}

\* C24: an add or set_schema that would create a link under a reserved name
\* fails with ReservedName and leaves root identifier and manifest unchanged,
\* and no encoded node holds a link under a reserved name
ReservedNamesRejected ==
    /\ CreatesReservedLink(last.pre, last.op, last.path)
       => /\ last.err = "ReservedName"
          /\ mounts["A"].cid = last.pre.cid
          /\ mounts["A"].manifest = last.pre.manifest
    /\ ReservedLinks(mounts["A"].block_cache) = {}

ReservedNamesRejectedWitness ==
    /\ last.op = "add" /\ last.path = <<NODE_SCHEMA_KEY, "a">>
    /\ last.err = "ReservedName"
    /\ IsNodeAt(last.pre, <<"a">>) /\ IsDataAt(last.pre, <<"a", "a">>)
    /\ NodeAt(last.pre, <<"a">>).v.schema.some
    /\ mounts["A"].cid = last.pre.cid

ReservedTerminalWitness ==
    /\ last.op = "set_schema" /\ last.path = <<"a", NODE_OBJECT_KEY>>
    /\ last.err = "ReservedName" /\ IsNodeAt(last.pre, <<"a">>)

----------------------------------------------------------------------------
(* Properties of the nodes of a mount *)

\* the identifiers of the nodes reachable from the manifest's data node
\* through node links, read from the block cache
ReachableNodes(mount) == pull_nodes(<<mount.manifest.data>>, {}, mount.block_cache).cache

\* the node blocks of a set of blocks that decode to a node without links
ZeroLinkNodes(cache) ==
    {c \in cache : get_cache(c, cache).err = "none" /\ size(get_cache(c, cache).v) = 0}

\* C25: every node reachable from the manifest's data node, other than the
\* root, has at least one link, and no call writes a node without links,
\* other than the root, into the block cache
NoZeroLinkNodes ==
    /\ ZeroLinkNodes(ReachableNodes(mounts["A"])) \subseteq {mounts["A"].manifest.data}
    /\ last.op \in {"add", "set_schema", "rm", "tag"}
       => ZeroLinkNodes(mounts["A"].block_cache \ last.pre.block_cache)
              \subseteq {mounts["A"].manifest.data}

\* C26: every object attached to a data link validates against its
\* effective schema, the schema of the enclosing node or else of the nearest
\* ancestor that carries one
ObjectsValidate ==
    \A p \in ChainPaths :
        (/\ IsDataAt(mounts["A"], p)
         /\ LinkAt(mounts["A"], p).v.object.some
         /\ NearestSchema(mounts["A"], Front(p)).some)
        => SchemaValidate(NearestSchema(mounts["A"], Front(p)).v,
                          LinkAt(mounts["A"], p).v.object.v)

RECURSIVE NodesUnder(_)
\* the identifiers of the node blocks reachable from a node identifier
\* through node links, read off the encoded blocks themselves
NodesUnder(cid) ==
    Let(IpldToNode(cid.hash), LAMBDA d :
        IF d.err # "none" THEN {cid}
        ELSE {cid} \cup UNION {NodesUnder(d.v.links[n].cid) :
                 n \in {k \in DOMAIN d.v.links : d.v.links[k].kind = "Node"}})

\* C28: after a pull, and after every successful update of the server's
\* mount, the block cache holds exactly the node blocks reachable from the
\* manifest's data node, none of the revision before
CacheIsReachableNodes ==
    /\ server.block_cache = NodesUnder(server.manifest.data)
    /\ (last.op = "pull" /\ last.err = "none")
       => mounts["B"].block_cache = NodesUnder(mounts["B"].manifest.data)

CacheIsReachableNodesWitness ==
    /\ Len(pushed) = 2 /\ server.cid = pushed[2]
    /\ InitMount.manifest.data \notin server.block_cache
    /\ Cardinality(server.block_cache) = 2
    /\ IsDataAt(server, <<"a">>) /\ IsNodeAt(server, <<"b">>)
    /\ last.op = "push" /\ scen.pc = "end"

\* C29: after a successful add(p, b) the link at p is a data link with the
\* identifier of b and no object, also when p held a data link with an
\* attached object before the call
AddDiscardsObject ==
    (last.op = "add" /\ last.err = "none")
    => /\ IsDataAt(mounts["A"], last.path)
       /\ LinkAt(mounts["A"], last.path).v = DataLink(DataCid(last.arg), None)

AddDiscardsObjectWitness ==
    /\ last.op = "add" /\ last.err = "none"
    /\ IsDataAt(last.pre, last.path) /\ ObjectAt(last.pre, last.path).some
    /\ LinkAt(last.pre, last.path).v.cid # DataCid(last.arg)
    /\ LinkAt(mounts["A"], last.path).v = DataLink(DataCid(last.arg), None)

\* C30: ls(/, deep = true) has an entry, keyed by the full path, for every
\* data link and for every node link of the tree
LsDeepListsEveryLink ==
    \E l \in {MountLs(mounts["A"], <<>>, TRUE)} :
        /\ l.err = "none"
        /\ \A p \in ChainPaths : LinkAt(mounts["A"], p).err = "none" =>
              \E i \in 1..Len(l.items) :
                  l.items[i].path = p /\ l.items[i].link = LinkAt(mounts["A"], p).v

----------------------------------------------------------------------------
(* The content handler of the server and the guard of its mount *)

\* number of content requests
MaxGets == 3

\* a content request: its position, whether it holds the guard of the
\* server's mount, and its path
NoGet == [pc |-> "idle", guard |-> FALSE, path |-> <<>>, status |-> 0]

\* AppState::from_config on a database that has a root: Mount::pull
ServerFromRoot(cid, store) == MountPull(cid, store).mount

\* a server started on a root that holds one file
InitContent ==
    \E path \in Paths, data \in Payloads :
    \E i \in {MountInit({})} :
    \E a \in {MountAdd(i.mount, path, data, FALSE, i.blocks)} :
    \E r \in {MountPush(a.mount, a.blocks)} :
        /\ blocks = r.blocks
        /\ mounts = [m \in MountIds |-> NoMount]
        /\ files = EmptyMap
        /\ last = Op("init", "A", <<>>, NoArg, FALSE, "none", NoMount)
        /\ nops = 0
        /\ chain = RootCidPush(r.mount.cid, DefaultCid, <<>>).rows
        /\ server = ServerFromRoot(r.mount.cid, r.blocks)
        /\ reqs = [c \in MountIds |-> NoGet]
        /\ disk = [c \in MountIds |-> NoDisk]
        /\ pushed = <<>>
        /\ scen = NoScen

\* the handler of a content request takes the guard: parking_lot's lock()
\* returns once no other handler holds it
GetAcquire(c) ==
    \E path \in Paths \cup {<<>>} :
        /\ reqs[c].pc \in {"idle", "done"} /\ nops < MaxGets
        /\ \A d \in MountIds : ~reqs[d].guard
        /\ reqs' = [reqs EXCEPT ![c] = [pc |-> "ls", guard |-> TRUE, path |-> path,
                                        status |-> 0]]
        /\ nops' = nops + 1
        /\ UNCHANGED <<blocks, mounts, files, last, chain, server, disk, pushed, scen>>

\* mount_guard.ls, and the start of mount_guard.cat: a listing that is not
\* empty is answered, a path that is absent is answered 404, and for a data
\* link the handler awaits cat_data of the store; the guard is dropped when
\* the handler's block ends
GetLs(c) ==
    /\ reqs[c].pc = "ls"
    /\ \E l \in {MountLs(server, reqs[c].path, FALSE)} :
       \E nl \in {get_node_link_at_path(server, reqs[c].path)} :
           reqs' = [reqs EXCEPT ![c] =
               IF l.err = "none" /\ l.items # <<>>
               THEN [@ EXCEPT !.pc = "done", !.guard = FALSE, !.status = 200]
               ELSE IF l.err \notin {"none", "PathNotDir", "PathNotFound"}
               THEN [@ EXCEPT !.pc = "done", !.guard = FALSE, !.status = 500]
               ELSE IF l.err = "PathNotDir" /\ nl.err = "none" /\ nl.v.kind = "Data"
               THEN [@ EXCEPT !.pc = "cat"]
               ELSE [@ EXCEPT !.pc = "done", !.guard = FALSE, !.status = 404]]
    /\ UNCHANGED <<blocks, mounts, files, last, nops, chain, server, disk, pushed, scen>>

\* the store answers cat_data, the handler responds and drops the guard
GetCat(c) ==
    /\ reqs[c].pc = "cat"
    /\ \E r \in {MountCat(server, reqs[c].path, blocks)} :
           reqs' = [reqs EXCEPT ![c] =
               [@ EXCEPT !.pc = "done", !.guard = FALSE,
                         !.status = IF r.err = "none" THEN 200 ELSE 404]]
    /\ UNCHANGED <<blocks, mounts, files, last, nops, chain, server, disk, pushed, scen>>

NextContent ==
    \/ \E c \in MountIds : GetAcquire(c)
    \/ \E c \in MountIds : GetLs(c)
    \/ \E c \in MountIds : GetCat(c)

SpecContent == InitContent /\ [][NextContent]_vars

\* C31: no handler is suspended on a call of the block store while it holds
\* the guard of the mount
GuardNotHeldAcrossAwait ==
    \A c \in MountIds : reqs[c].pc = "cat" => ~reqs[c].guard

----------------------------------------------------------------------------
(* The encoding of nodes *)

\* the nodes one call of put_link, put_object, set_schema or del makes of a
\* node (the node itself when the call fails)
NodeSteps(node) ==
    {node}
    \cup {put_link(node, n, c).node :
            n \in Names, c \in {DataCid("x"), put_cache(DefaultNode, {}).cid}}
    \cup {put_object(node, n, o, None).node : n \in Names, o \in ObjectInputs}
    \cup {node_set_schema(node, sch) : sch \in ChainSchemas}
    \cup {del(node, n) : n \in Names}

\* C32: decoding the encoding of a node gives the node: for every node the
\* mount has built and every node one more call makes of it
NodeRoundTrips ==
    \A c \in mounts["A"].block_cache :
    \A n \in NodeSteps(get_cache(c, mounts["A"].block_cache).v) :
        IpldToNode(NodeToIpld(n)) = [err |-> "none", v |-> n]

NodeRoundTripsWitness ==
    \E c \in mounts["A"].block_cache :
    \E n \in NodeSteps(get_cache(c, mounts["A"].block_cache).v) :
        /\ n.schema.some
        /\ \E k, j \in DOMAIN n.links :
              /\ n.links[k].kind = "Data" /\ n.links[k].object.some
              /\ n.links[j].kind = "Node"
        /\ IpldToNode(NodeToIpld(n)).v = n

----------------------------------------------------------------------------
(* The root identifier and the manifest *)

\* C33: after every operation of a mount, failed ones included, the root
\* identifier is the identifier of the manifest the mount holds
CidIsManifestCid ==
    mounts["A"].cid = ManifestCid(mounts["A"].manifest)

----------------------------------------------------------------------------
(* Operations on a mount that holds files *)

\* the paths of the two files of the starting mount
FrameStarts ==
    {<<<<"a", "a">>, <<"b">>>>, <<<<"a", "a">>, <<"a", "b">>>>, <<<<"a">>, <<"b", "a">>>>}

\* a mount after init, add(p1, "x"), tag(p1, o), add(p2, "y")
InitFrame ==
    \E st \in FrameStarts, o \in ObjectInputs :
    \E i \in {MountInit({})} :
    \E a1 \in {MountAdd(i.mount, st[1], "x", FALSE, i.blocks)} :
    \E t1 \in {MountTag(a1.mount, st[1], o, a1.blocks)} :
    \E a2 \in {MountAdd(t1.mount, st[2], "y", FALSE, t1.blocks)} :
        /\ blocks = a2.blocks
        /\ mounts = [m \in MountIds |-> IF m = "A" THEN a2.mount ELSE NoMount]
        /\ files = FilesAdd(FilesAdd(EmptyMap, st[1], "x"), st[2], "y")
        /\ last = Op("add", "A", st[2], "y", FALSE, a2.err, t1.mount)
        /\ nops = 0
        /\ chain = <<>>
        /\ server = NoMount
        /\ reqs = [c \in MountIds |-> NoReq]
        /\ disk = [c \in MountIds |-> NoDisk]
        /\ pushed = <<>>
        /\ scen = NoScen

SpecFrame == InitFrame /\ [][Next]_vars

Unrelated(p, q) == ~IsPrefix(p, q) /\ ~IsPrefix(q, p)

\* the entries ls("/", deep = true) has at a path: none or one link
EntryAt(mount, q) ==
    Let(MountLs(mount, <<>>, TRUE).items, LAMBDA items :
        {items[i].link : i \in {j \in 1..Len(items) : items[j].path = q}})

\* C35: a successful add, tag, set_schema or rm at p leaves the entry of
\* ls("/", deep = true) at every path q unrelated to p as it was (present
\* or absent, identifier and object), and a tag leaves the payload
\* identifier at p as it was
UnrelatedPathsUnchanged ==
    (last.op \in {"add", "tag", "set_schema", "rm"} /\ last.err = "none" /\ last.m = "A")
    => /\ \A q \in Paths : Unrelated(last.path, q) =>
              EntryAt(mounts["A"], q) = EntryAt(last.pre, q)
       /\ (last.op = "tag" /\ IsDataAt(last.pre, last.path)) =>
              /\ IsDataAt(mounts["A"], last.path)
              /\ LinkAt(mounts["A"], last.path).v.cid = LinkAt(last.pre, last.path).v.cid

UnrelatedPathsUnchangedWitness ==
    /\ last.op = "rm" /\ last.err = "none" /\ Len(last.path) = 2
    /\ IsDataAt(last.pre, last.path) /\ LinkAt(mounts["A"], last.path).err = "PathNotFound"
    /\ \E q \in Paths :
          /\ Unrelated(last.path, q) /\ Front(q) = Front(last.path)
          /\ EntryAt(mounts["A"], q) # {}
          /\ \E l \in EntryAt(mounts["A"], q) : l.object.some

\* the mount after add(p1, b1) and then add(p2, b2)
AddBoth(mount, p1, in1, p2, in2) ==
    Let(MountAdd(mount, p1, in1.data, in1.hash_only, blocks), LAMBDA r1 :
        MountAdd(r1.mount, p2, in2.data, in2.hash_only, r1.blocks).mount)

\* C36: the root identifier after two adds at unrelated paths does not
\* depend on their order, and not on hash_only: after a successful
\* add(p1, b1) from a mount, add(p2, b2) gives the root identifier that
\* add(p2, b2); add(p1, b1) gives from that mount, and the add with the
\* other value of hash_only gives the root identifier the add gave
AddOrderIndependent ==
    (nops > 0 /\ last.op = "add" /\ last.err = "none" /\ last.m = "A")
    => /\ \A p2 \in Paths, in2 \in AddInputs :
              Unrelated(last.path, p2) =>
                  MountAdd(mounts["A"], p2, in2.data, in2.hash_only, blocks).mount.cid
                  = AddBoth(last.pre, p2, in2, last.path,
                            [data |-> last.arg, hash_only |-> last.flag]).cid
       /\ MountAdd(last.pre, last.path, last.arg, ~last.flag, blocks).mount.cid
          = mounts["A"].cid

AddOrderIndependentWitness ==
    /\ nops > 0 /\ last.op = "add" /\ last.err = "none" /\ last.m = "A" /\ last.flag
    /\ mounts["A"].cid # last.pre.cid
    /\ \E p2 \in Paths, in2 \in AddInputs :
          /\ Unrelated(last.path, p2) /\ Len(p2) = 2 /\ Len(last.path) = 2
          /\ p2[1] = last.path[1]
          /\ \E r \in {MountAdd(mounts["A"], p2, in2.data, in2.hash_only, blocks)} :
                /\ r.err = "none"
                /\ r.mount.cid # mounts["A"].cid
                /\ r.mount.cid = AddBoth(last.pre, p2, in2, last.path,
                                         [data |-> last.arg, hash_only |-> TRUE]).cid
                /\ r.mount.cid # MountAdd(last.pre, p2, in2.data, in2.hash_only,
                                          blocks).mount.cid

----------------------------------------------------------------------------
(* The pull command of the client: the remote listing against the working *)
(* directory.  A remote item is [path, cid]; an entry of the working      *)
(* directory is [path, is_dir, hash] with hash the identifier of the      *)
(* file's content.  Both lists are sorted by path.                        *)

\* the paths of the listings, in sorted order
PullOrder == <<"a", "b", "c">>

\* file_needs_pull for an entry the walk of the working directory found
file_needs_pull(entry, cid) ==
    IF entry.is_dir THEN [err |-> "PathIsDirectory", v |-> FALSE]
    ELSE [err |-> "none", v |-> entry.hash # cid]

RECURSIVE PullMerge(_, _, _, _)
\* the merge loop of Pull::execute over the two iterators
PullMerge(pi, ci, to_pull, to_prune) ==
    IF pi # <<>> /\ ci # <<>>
    THEN LET PathIndex(path) == CHOOSE i \in 1..Len(PullOrder) : PullOrder[i] = path
         IN
         IF Head(ci).is_dir THEN PullMerge(pi, Tail(ci), to_pull, to_prune)
         ELSE IF PathIndex(Head(pi).path) < PathIndex(Head(ci).path)
         THEN PullMerge(Tail(pi), Tail(ci), Append(to_pull, Head(pi).path), to_prune)
         ELSE IF PathIndex(Head(pi).path) > PathIndex(Head(ci).path)
         THEN PullMerge(Tail(pi), Tail(ci), to_pull, Append(to_prune, Head(ci).path))
         ELSE Let(file_needs_pull(Head(ci), Head(pi).cid), LAMBDA need :
                  IF need.err # "none"
                  THEN [err |-> need.err, to_pull |-> to_pull, to_prune |-> to_prune]
                  ELSE IF need.v /\ Head(pi).cid # DefaultCid
                  THEN PullMerge(Tail(pi), Tail(ci),
                                 Append(to_pull, Head(pi).path), to_prune)
                  ELSE PullMerge(Tail(pi), Tail(ci), to_pull, to_prune))
    ELSE IF pi # <<>>
    THEN PullMerge(Tail(pi), ci, Append(to_pull, Head(pi).path), to_prune)
    ELSE IF ci # <<>>
    THEN PullMerge(pi, Tail(ci), to_pull, Append(to_prune, Head(ci).path))
    ELSE [err |-> "none", to_pull |-> to_pull, to_prune |-> to_prune]

\* the set of elements of a sequence
Range(seq) == {seq[i] : i \in 1..Len(seq)}

\* the working directory after pull_file for every path to pull and
\* rm_file for every path to prune; rm_file fails on a directory
PullWrite(remote, local, to_pull, to_prune) ==
    LET cid_of == [p \in {r.path : r \in Range(remote)} |->
                     (CHOOSE r \in Range(remote) : r.path = p).cid]
        dirs == {e.path : e \in {x \in Range(local) : x.is_dir}}
        written == [p \in Range(PullOrder) |->
                      IF p \in Range(to_pull)
                      THEN [path |-> p, is_dir |-> FALSE, hash |-> cid_of[p]]
                      ELSE IF \E e \in Range(local) : e.path = p
                      THEN CHOOSE e \in Range(local) : e.path = p
                      ELSE [path |-> p, is_dir |-> FALSE, hash |-> DefaultCid]]
        present == {e.path : e \in Range(local)} \cup Range(to_pull)
        failed == Range(to_prune) \cap dirs # {}
        removed == IF failed THEN {} ELSE Range(to_prune)
    IN  [err |-> IF failed THEN "Io" ELSE "none",
         local |-> Let(SelectSeq(PullOrder, LAMBDA p : p \in present \ removed),
                       LAMBDA kept : [i \in 1..Len(kept) |-> written[kept[i]]])]

\* a working directory and a remote listing: each path absent, or present
\* with one of two contents (locally also as a directory)
InitSync ==
    \E rc \in [Range(PullOrder) -> {"absent", "x", "y"}],
       lc \in [Range(PullOrder) -> {"absent", "dir", "x", "y"}] :
    \E i \in {MountInit({})} :
        /\ blocks = i.blocks
        /\ mounts = [m \in MountIds |-> NoMount]
        /\ files = EmptyMap
        /\ last = Op("init", "A", <<>>, NoArg, FALSE, "none", NoMount)
        /\ nops = 0
        /\ chain = <<>>
        /\ server = NoMount
        /\ reqs = [c \in MountIds |-> NoReq]
        /\ disk = [c \in MountIds |-> NoDisk]
        /\ pushed = <<>>
        /\ scen = Let(SelectSeq(PullOrder, LAMBDA p : rc[p] # "absent"), LAMBDA rp :
                  Let(SelectSeq(PullOrder, LAMBDA p : lc[p] # "absent"), LAMBDA lp :
                      [pc |-> "start",
                       remote |-> [k \in 1..Len(rp) |->
                                     [path |-> rp[k], cid |-> DataCid(rc[rp[k]])]],
                       local |-> [k \in 1..Len(lp) |->
                                    [path |-> lp[k], is_dir |-> lc[lp[k]] = "dir",
                                     hash |-> IF lc[lp[k]] = "dir" THEN DefaultCid
                                              ELSE DataCid(lc[lp[k]])]],
                       before |-> <<>>, to_pull |-> <<>>, to_prune |-> <<>>,
                       err |-> "none"]))

\* Pull::execute from the merge loop to the writes and removals
PullSync ==
    /\ scen.pc = "start"
    /\ \E m \in {PullMerge(scen.remote, scen.local, <<>>, <<>>)} :
       \E w \in {IF m.err # "none" THEN [err |-> m.err, local |-> scen.local]
                 ELSE PullWrite(scen.remote, scen.local, m.to_pull, m.to_prune)} :
           scen' = [scen EXCEPT !.pc = "done", !.before = scen.local,
                                !.local = w.local, !.to_pull = m.to_pull,
                                !.to_prune = m.to_prune, !.err = w.err]
    /\ UNCHANGED <<blocks, mounts, files, last, nops, chain, server, reqs, disk, pushed>>

SpecSync == InitSync /\ [][PullSync]_vars

RemotePaths == {r.path : r \in Range(scen.remote)}
LocalFiles == {e.path : e \in {x \in Range(scen.before) : ~x.is_dir}}

\* C38: pull fetches every remote path that is missing locally or whose
\* local content hash differs, prunes exactly the local files that have no
\* entry in the remote listing, and prunes no file that has one
PullSynchronises ==
    scen.pc = "done" =>
        /\ \A r \in Range(scen.remote) :
              (\/ r.path \notin {e.path : e \in Range(scen.before)}
               \/ \E e \in Range(scen.before) :
                     e.path = r.path /\ ~e.is_dir /\ e.hash # r.cid)
              => r.path \in Range(scen.to_pull)
        /\ Range(scen.to_prune) \cap LocalFiles = LocalFiles \ RemotePaths
        /\ Range(scen.to_prune) \cap RemotePaths \cap LocalFiles = {}

----------------------------------------------------------------------------
(* The add, push and pull commands of the client over its state           *)
(* directory: the state file (disk.cid), the previous-root file           *)
(* (disk.previous_cid) and the change log (files), a map from the path of *)
(* a file of the working directory to [hash, change].  A path of the      *)
(* working directory is a key [kind, path]: <dir>/.schema is              *)
(* ["schema", dir], <dir>/.obj/.<name>.json is ["object", dir/name], any  *)
(* other file is ["regular", path].  The content of a file is recovered   *)
(* from its hash.  The removal of a schema file or of an object file      *)
(* calls operations of the mount that are outside this model; the inputs  *)
(* hold no such entry.                                                    *)


\* the keys of the change log in the order of their relative paths:
\* a/.obj/.a.json, a/.schema, a/a, b
WorkOrder ==
    <<[kind |-> "object", path |-> <<"a", "a">>],
      [kind |-> "schema", path |-> <<"a">>],
      [kind |-> "regular", path |-> <<"a", "a">>],
      [kind |-> "regular", path |-> <<"b">>]>>

\* the change logs the comparison of the working directory with the log
\* hands to the add command; a change is Base, Added{modified},
\* Modified{processed} or Removed{processed}
WorkDiffs ==
    LET absent == [t |-> "absent"]
        entry(content, change) == [hash |-> DataCid(content), change |-> change]
        added == [t |-> "Added", modified |-> TRUE]
        modified == [t |-> "Modified", processed |-> FALSE]
        removed == [t |-> "Removed", processed |-> FALSE]
        objects == {absent, entry("o", added), entry("p", modified)}
        schemas == {absent, entry("s", added)}
        files_aa == {absent, entry("x", added), entry("y", modified),
                     entry("x", removed), entry("x", [t |-> "Base"])}
        files_b == {absent, entry("x", added)}
    IN  {[k \in {WorkOrder[j] : j \in {i \in 1..4 : f[i] # absent}} |->
             f[CHOOSE j \in 1..4 : WorkOrder[j] = k]] :
            f \in {<<o, sc, fa, fb>> :
                      o \in objects, sc \in schemas, fa \in files_aa, fb \in files_b}}

\* the change kind an entry is given once it has been handled:
\* Added{modified: false}, Modified{processed: true}, Removed{processed: true}
Processed(change) ==
    IF change.t = "Added" THEN [change EXCEPT !.modified = FALSE]
    ELSE IF change.t = "Base" THEN change
    ELSE [change EXCEPT !.processed = TRUE]

\* every pass walks the whole change log
PassKeysOfEveryKind(updates, pass) ==
    SelectSeq(WorkOrder, LAMBDA k : k \in DOMAIN updates)

\* updates.schema(), updates.regular(), updates.object(): the entries of one
\* kind, in key order
PassKeys(updates, pass) ==
    SelectSeq(WorkOrder, LAMBDA k : k \in DOMAIN updates /\ k.kind = pass)

RECURSIVE AddPass(_, _)
\* one pass of Add::execute over its entries: an unprocessed entry is read
\* from its file (the file "o" holds an object with a title, "p" one
\* without), handed to the mount and marked; the first error ends the run
AddPass(keys, st) ==
    IF keys = <<>> \/ st.err # "none" THEN st
    ELSE IF Processed(st.updates[Head(keys)].change) = st.updates[Head(keys)].change
    THEN AddPass(Tail(keys), st)
    ELSE LET key == Head(keys)
             str == st.updates[key].hash.hash
             object == CHOOSE o \in ObjectInputs :
                          o.created_at = (IF str = "o" THEN 1 ELSE 2)
         IN  Let(IF key.kind = "schema"
                 THEN MountSetSchema(st.mount, key.path, TitleSchema, st.blocks)
                 ELSE IF key.kind = "object"
                 THEN MountTag(st.mount, key.path, object, st.blocks)
                 ELSE IF st.updates[key].change.t = "Removed"
                 THEN MountRm(st.mount, key.path, st.blocks)
                 ELSE MountAdd(st.mount, key.path, str, FALSE, st.blocks),
                 LAMBDA r :
                    IF r.err # "none" THEN [st EXCEPT !.err = r.err, !.blocks = r.blocks]
                    ELSE AddPass(Tail(keys),
                           [st EXCEPT !.mount = r.mount, !.blocks = r.blocks,
                                      !.updates = [@ EXCEPT ![key].change = Processed(@)],
                                      !.calls = Append(@, key)]))

\* Add::execute with the change log: Mount::pull, the three passes,
\* Mount::push and save(mount, updates, None)
AddExecuteLog(d, log, updates, store) ==
    Let(MountPull(d.cid, store), LAMBDA p :
    Let([err |-> p.err, mount |-> p.mount, blocks |-> store,
         updates |-> updates, calls |-> <<>>], LAMBDA st0 :
    Let(AddPass(PassKeys(updates, "schema"), st0), LAMBDA st1 :
    Let(AddPass(PassKeys(updates, "regular"), st1), LAMBDA st2 :
    Let(AddPass(PassKeys(updates, "object"), st2), LAMBDA st3 :
        IF st3.err # "none"
        THEN [err |-> st3.err, disk |-> d, log |-> log, blocks |-> st3.blocks,
              calls |-> st3.calls, pushed |-> FALSE, mount |-> st3.mount]
        ELSE Let(MountPush(st3.mount, st3.blocks), LAMBDA q :
                 [err |-> "none", disk |-> [d EXCEPT !.cid = q.mount.cid],
                  log |-> st3.updates, blocks |-> q.blocks, calls |-> st3.calls,
                  pushed |-> TRUE, mount |-> q.mount]))))))

\* the change log Push::execute saves: removed entries dropped, every
\* other entry set to Base
PushUpdates(log) ==
    [k \in {j \in DOMAIN log : log[j].change.t # "Removed"} |->
        [hash |-> log[k].hash, change |-> [t |-> "Base"]]]

\* scen holds what the last command of the client did
InitWork ==
    \E srv \in {ServerFromConfig({})} :
    \E s \in {CliInitExecute(srv.blocks, srv.rows)} :
        /\ blocks = s.blocks
        /\ mounts = [m \in MountIds |-> NoMount]
        /\ files = EmptyMap
        /\ last = Op("init", "A", <<>>, NoArg, FALSE, "none", NoMount)
        /\ nops = 0
        /\ chain = s.rows
        /\ server = srv.mount
        /\ reqs = [c \in MountIds |-> NoReq]
        /\ disk = [c \in MountIds |-> s.disk]
        /\ pushed = <<>>
        /\ scen = [runs |-> 0, op |-> "none", err |-> "none", status |-> 0,
                   contacted |-> FALSE, pushed |-> FALSE, disk |-> s.disk,
                   log |-> EmptyMap, updates |-> EmptyMap, calls |-> <<>>,
                   root |-> DefaultCid]

\* the add command
WorkAdd ==
    /\ scen.runs < MaxCliOps
    /\ \E updates \in WorkDiffs :
       \E r \in {AddExecuteLog(disk["A"], files, updates, blocks)} :
           /\ disk' = [disk EXCEPT !["A"] = r.disk]
           /\ files' = r.log
           /\ blocks' = r.blocks
           /\ mounts' = [mounts EXCEPT !["A"] = r.mount]
           /\ scen' = [runs |-> scen.runs + 1, op |-> "add", err |-> r.err, status |-> 0,
                       contacted |-> FALSE, pushed |-> r.pushed, disk |-> disk["A"],
                       log |-> files, updates |-> updates, calls |-> r.calls,
                       root |-> DefaultCid]
    /\ UNCHANGED <<last, nops, chain, server, reqs, pushed>>

\* the push command, with the handler of the coordinator answering it; the
\* push of the mount to the store fails or succeeds
WorkPush ==
    /\ \E fails \in BOOLEAN :
       \E r \in {PushExecute(disk["A"], blocks)} :
       \E req \in {IF r.err = "none" /\ ~fails
                   THEN [NoReq EXCEPT !.pc = "sent", !.cid = r.cid,
                                      !.previous_cid = r.previous_cid]
                   ELSE NoReq} :
       \E h \in {IF req.pc = "sent" THEN HandlerPush(req, chain)
                 ELSE [req |-> req, rows |-> chain]} :
       \E u \in {IF h.req.pc = "committed" THEN HandlerMountUpdate(h.req, server, r.blocks)
                 ELSE [req |-> h.req, mount |-> server]} :
           /\ r.err = "nochange" => ~fails
           /\ chain' = h.rows
           /\ server' = u.mount
           /\ blocks' = IF fails THEN blocks ELSE r.blocks
           /\ disk' = [disk EXCEPT !["A"] =
                         IF req.pc = "sent" THEN PushExecuteSave(@, r.mount, u.req.status)
                         ELSE @]
           /\ files' = IF req.pc = "sent" /\ u.req.status = 200
                       THEN PushUpdates(files) ELSE files
           /\ scen' = [runs |-> scen.runs, op |-> "push",
                       err |-> IF r.err = "nochange" THEN "none"
                               ELSE IF r.err # "none" THEN r.err
                               ELSE IF fails THEN "IpfsRpc"
                               ELSE u.req.err,
                       status |-> u.req.status, contacted |-> req.pc = "sent",
                       pushed |-> FALSE, disk |-> disk["A"], log |-> files,
                       updates |-> EmptyMap, calls |-> <<>>, root |-> req.cid]
    /\ UNCHANGED <<mounts, last, nops, reqs, pushed>>

\* the pull command as far as it writes the state directory: the pulled
\* root in both files, and a change log with one Base entry per pulled link
WorkPull ==
    /\ scen.runs < MaxCliOps
    /\ \E r \in {PullExecute(disk["A"], chain, blocks)} :
       \E items \in {MountLs(MountPull(r.disk.cid, blocks).mount, <<>>, TRUE).items} :
           /\ r.err = "none"
           /\ disk' = [disk EXCEPT !["A"] = r.disk]
           /\ files' = [k \in {[kind |-> "regular", path |-> items[i].path] :
                                  i \in 1..Len(items)} |->
                          [hash |-> (CHOOSE it \in Range(items) : it.path = k.path).link.cid,
                           change |-> [t |-> "Base"]]]
           /\ scen' = [runs |-> scen.runs + 1, op |-> "pull", err |-> "none",
                       status |-> 0, contacted |-> FALSE, pushed |-> FALSE,
                       disk |-> disk["A"], log |-> files, updates |-> EmptyMap,
                       calls |-> <<>>, root |-> DefaultCid]
    /\ UNCHANGED <<blocks, mounts, last, nops, chain, server, reqs, pushed>>

\* another writer pushes a root based on the head; the handler commits the
\* row and then updates the mount of the server, which fails for a root
\* whose manifest does not name the head as its previous root
WorkRival ==
    /\ nops < MaxPosts
    /\ \E kind \in {"linked", "unlinked"} :
       \E r \in {ClientPrepare(ChainHead(chain), [op |-> "add", path |-> <<"b">>], kind,
                               ChainHead(chain), blocks)} :
       \E h \in {HandlerPush([NoReq EXCEPT !.pc = "sent", !.cid = r.mount.cid,
                                           !.previous_cid = ChainHead(chain)], chain)} :
       \E u \in {HandlerMountUpdate(h.req, server, r.blocks)} :
           /\ h.req.pc = "committed"
           /\ blocks' = r.blocks
           /\ chain' = h.rows
           /\ server' = u.mount
    /\ nops' = nops + 1
    /\ UNCHANGED <<mounts, files, last, reqs, disk, pushed, scen>>

SpecWork == InitWork /\ [][WorkAdd \/ WorkPush \/ WorkPull \/ WorkRival]_vars

PassRank(kind) == IF kind = "schema" THEN 1 ELSE IF kind = "regular" THEN 2 ELSE 3

\* C39: in one run of the add command every call for a schema file comes
\* before every call for a regular file, and those before every call for
\* an object file; after a successful run every entry that was unprocessed
\* is saved with its processed kind and every other entry as it was; after
\* a failed run the mount has not been pushed and the state file, the
\* previous-root file and the change log are as they were
AddRunInPasses ==
    scen.op = "add" =>
        /\ \A i, j \in 1..Len(scen.calls) :
              i < j => PassRank(scen.calls[i].kind) <= PassRank(scen.calls[j].kind)
        /\ scen.err = "none" =>
              /\ DOMAIN files = DOMAIN scen.updates
              /\ \A k \in DOMAIN files :
                    /\ files[k].hash = scen.updates[k].hash
                    /\ files[k].change = Processed(scen.updates[k].change)
                    /\ Processed(scen.updates[k].change) # scen.updates[k].change
                          <=> k \in Range(scen.calls)
              /\ \A k \in DOMAIN files :
                    \/ files[k].change.t = "Base"
                    \/ files[k].change.t = "Added" /\ ~files[k].change.modified
                    \/ files[k].change.t \in {"Modified", "Removed"}
                       /\ files[k].change.processed
        /\ scen.err # "none" =>
              /\ ~scen.pushed
              /\ disk["A"] = scen.disk
              /\ files = scen.log

AddRunInPassesWitness ==
    /\ scen.op = "add" /\ scen.err = "none" /\ scen.pushed
    /\ Len(scen.calls) = 4
    /\ scen.calls[1].kind = "schema" /\ scen.calls[4].kind = "object"
    /\ WorkOrder[1].kind = "object" /\ WorkOrder[1] \in DOMAIN scen.updates
    /\ disk["A"].cid # scen.disk.cid
    /\ \E k \in DOMAIN scen.updates :
          scen.updates[k].change = [t |-> "Removed", processed |-> FALSE]

\* C37: a push command that fails, at the store or by the answer of the
\* coordinator, leaves the state file, the previous-root file and the
\* change log as they were; it contacts the coordinator only when the root
\* of the state file differs from the previous-root file, and when the
\* coordinator accepts, both hold the pushed root
PushSavesOnSuccessOnly ==
    scen.op = "push" =>
        /\ (scen.err # "none" \/ ~scen.contacted) =>
              /\ disk["A"] = scen.disk
              /\ files = scen.log
        /\ scen.contacted => scen.disk.cid # scen.disk.previous_cid
        /\ (scen.err = "none" /\ scen.contacted) =>
              /\ scen.status = 200
              /\ scen.root \in ChainCids(chain)
              /\ disk["A"] = [cid |-> scen.root, previous_cid |-> scen.root]

PushSavesOnSuccessOnlyWitness ==
    /\ scen.op = "push" /\ scen.contacted /\ scen.err = "Conflict" /\ scen.status = 409
    /\ disk["A"].cid # disk["A"].previous_cid
    /\ \E k \in DOMAIN files : files[k].change.t = "Removed"

PushRejectedAfterCommitWitness ==
    /\ scen.op = "push" /\ scen.contacted /\ scen.err \notin {"none", "Conflict"}

PushStoreFailureWitness ==
    /\ scen.op = "push" /\ ~scen.contacted /\ scen.err = "IpfsRpc"

PushAcceptedWitness ==
    /\ scen.op = "push" /\ scen.contacted /\ scen.err = "none"
    /\ \E k \in DOMAIN scen.log : scen.log[k].change.t = "Removed"
    /\ files # EmptyMap

AddRunFailsWitness ==
    /\ scen.op = "add" /\ scen.err # "none" /\ Len(scen.calls) >= 2

====
